---- MODULE Spec2Model ----
(***************************************************************************)
(* pg_query_stack: the per-backend stack of query texts kept by the        *)
(* ExecutorStart / ExecutorFinish hooks, the transaction and               *)
(* sub-transaction callbacks that reset it, and the set-returning function *)
(* pg_query_stack(_skip_count) that exports it.                            *)
(*                                                                         *)
(* The tracker is modelled from src/pg_query_stack.c, lines 1-509 (the     *)
(* version with the xact / subxact callbacks).  The host (the PostgreSQL   *)
(* executor, error unwinding, savepoints) is modelled as the environment   *)
(* that calls the hooks and callbacks.                                     *)
(***************************************************************************)
EXTENDS Integers, Sequences, FiniteSets, TLC

(***************************************************************************)
(* Bounds of the model.                                                    *)
(***************************************************************************)
\* deepest nesting of executor frames the host opens
MaxNest == 3
\* deepest nesting of savepoints the host opens
MaxSub == 1

(***************************************************************************)
(* Values.                                                                 *)
(***************************************************************************)
\* queryDesc->sourceText: the query at each nesting level has its own text
\* (the tracker only copies texts, it never compares them); NULL is the
\* absent text
AllTexts == <<"A", "B", "C", "D", "E">>
NULL == "<NULL>"
SourceTexts(level) == {AllTexts[level], NULL}

\* _skip_count arguments of pg_query_stack: a SQL NULL or an int32
SkipValues == {-5, 0, 1, 2, 100000}
SkipArgs ==
    {[isnull |-> TRUE, value |-> 0]} \cup
    {[isnull |-> FALSE, value |-> v] : v \in SkipValues}

\* the call sites of pg_query_stack in the queries that run: each FuncExpr
\* has its own fn_extra, hence its own FuncCallContext
Sites == {1, 2}

XactEvents == {"XACT_EVENT_COMMIT", "XACT_EVENT_ABORT", "XACT_EVENT_PRE_COMMIT"}
SubXactEvents ==
    {"SUBXACT_EVENT_START_SUB", "SUBXACT_EVENT_COMMIT_SUB",
     "SUBXACT_EVENT_ABORT_SUB", "SUBXACT_EVENT_PRE_COMMIT_SUB"}

VARIABLES
    query_stack,  \* List of QueryStackEntry, head (index 1) = newest (lcons)
    active,       \* host: frames begun and not ended, outermost first
    subxacts,     \* host: open sub-transactions, outermost first
    mode,         \* host: "run", "error" while an error unwinds, or "crashed"
    failedFrame,  \* host: the error in flight made a frame fail
    caught,       \* host: the outermost frame caught the failure of a nested frame
    d0s,          \* host: stack depth at the begin of each frame that has seen
                  \*       no failure and no (sub)transaction event since
    funcctx,      \* per call site of the exporter: its FuncCallContext
                  \*       (fn_extra; <<>> = none)
    prev,         \* the exporter invocation made last by the innermost frame,
                  \*       no frame having begun or ended since (<<>> = none)
    enabled,      \* the enable switch of the tracker described in spec.md
                  \*       (none of the versions in src/ has it: always TRUE there)
    cells,        \* per element of query_stack, in the same order: the
                  \*       addresses of its QueryStackEntry and of its text
                  \*       copy, the nesting level of the frame that pushed
                  \*       it, and whether that frame was abandoned
    pg_query_stack_context,
                  \* the memory context of the tracker: its state, the
                  \*       chunks allocated in it, and the first misuse of a
                  \*       chunk ("none" = no misuse so far)
    hooks,        \* host: the heads of the hook chains and the callback
                  \*       lists; tracker: prev_ExecutorStart,
                  \*       prev_ExecutorFinish
    Query_Stack,  \* the stack of the two other versions in the file (lines
                  \*       510-921: owned copies; lines 922-1245: QueryDesc
                  \*       pointers), head (index 1) = newest
    QueryStackContext,
                  \* the memory context of the version of lines 510-921
    last          \* the last operation and the stack before it

vars == <<query_stack, active, subxacts, mode, failedFrame, caught,
          d0s, funcctx, prev, enabled, cells, pg_query_stack_context,
          hooks, Query_Stack, QueryStackContext, last>>

(***************************************************************************)
(* List primitives of nodes/pg_list.h as the tracker uses them.            *)
(***************************************************************************)
NIL == <<>>

lcons(entry, list) == <<entry>> \o list

list_delete_first(list) == Tail(list)

lappend(list, entry) == Append(list, entry)

Front(s) == SubSeq(s, 1, Len(s) - 1)

(***************************************************************************)
(* Memory contexts (utils/memutils.h, utils/palloc.h).  A context is       *)
(* [state, chunks, fault]: chunks are the addresses allocated in it.       *)
(***************************************************************************)
\* AllocSetContextCreate(TopMemoryContext, ...)
AllocSetContextCreate == [state |-> "live", chunks |-> {}, fault |-> "none"]

\* the address palloc returns in a context: the lowest one not in use
palloc(context) ==
    CHOOSE a \in 1..(Cardinality(context.chunks) + 1) :
        /\ a \notin context.chunks
        /\ \A b \in 1..(a - 1) : b \in context.chunks

\* the context after the chunk at addr has been allocated in it
Allocated(context, addr) ==
    IF context.state = "live"
    THEN [context EXCEPT !.chunks = @ \cup {addr}]
    ELSE [context EXCEPT !.fault =
             IF @ = "none" THEN "allocation in a deleted context" ELSE @]

\* pfree(pointer): releasing a chunk that is not allocated is a misuse
pfree(context, addr) ==
    IF addr \in context.chunks
    THEN [context EXCEPT !.chunks = @ \ {addr}]
    ELSE [context EXCEPT !.fault =
             IF @ = "none" THEN "pfree of a released chunk" ELSE @]

\* reading through a pointer: reading a released chunk is a misuse
ReadChunk(context, addr) ==
    IF addr \in context.chunks
    THEN context
    ELSE [context EXCEPT !.fault =
             IF @ = "none" THEN "read of a released chunk" ELSE @]

\* a MemoryContext variable that is NULL
NoContext ==
    [state |-> "NULL", chunks |-> {}, fault |-> "none", parent |-> "NULL"]

\* MemoryContextReset(context): every chunk of the context is released
MemoryContextReset(context) == [context EXCEPT !.chunks = {}]

\* MemoryContextDelete(context): the chunks and the context are released
MemoryContextDelete(context) ==
    [context EXCEPT !.chunks = {}, !.state = "deleted"]

(***************************************************************************)
(* The stack operations of the hooks.                                      *)
(***************************************************************************)
\* ExecutorStart: the entry is pushed only when there is a source text
PushFrame(stack, sourceText) ==
    IF sourceText # NULL
    THEN lcons([query |-> sourceText], stack)
    ELSE stack

\* ExecutorFinish: the head entry is removed whenever the stack is not NIL
PopFrame_Twice(stack) ==
    IF stack # NIL
    THEN IF list_delete_first(stack) # NIL
         THEN list_delete_first(list_delete_first(stack))
         ELSE list_delete_first(stack)
    ELSE stack

PopFrame(stack) ==
    IF stack # NIL
    THEN list_delete_first(stack)
    ELSE stack

\* the same push on the memory: palloc(sizeof(QueryStackEntry)) and
\* pstrdup(sourceText) in pg_query_stack_context, then lcons; frame is the
\* nesting level of the frame that pushes
PushCell(cs, context, sourceText, frame) ==
    IF sourceText # NULL
    THEN LET entry   == palloc(context)
             context1 == Allocated(context, entry)
             query   == palloc(context1)
             context2 == Allocated(context1, query)
         IN  [cells   |-> lcons([entry |-> entry, query |-> query,
                                 frame |-> frame, abandoned |-> FALSE], cs),
              context |-> context2]
    ELSE [cells |-> cs, context |-> context]

\* the same pop on the memory: linitial, pfree(entry->query), pfree(entry),
\* list_delete_first
PopCell_KeepText(cs, context) ==
    IF cs # NIL
    THEN [cells   |-> list_delete_first(cs),
          context |-> pfree(ReadChunk(context, cs[1].entry), cs[1].entry)]
    ELSE [cells |-> cs, context |-> context]

PopCell(cs, context) ==
    IF cs # NIL
    THEN [cells   |-> list_delete_first(cs),
          context |-> pfree(pfree(ReadChunk(context, cs[1].entry),
                                  cs[1].query),
                            cs[1].entry)]
    ELSE [cells |-> cs, context |-> context]

\* the end hook of the version of lines 510-921: pg_stack_free removes the
\* head entry if there is one
pg_stack_free(stack) ==
    IF stack # NIL
    THEN list_delete_first(stack)
    ELSE stack

\* pg_query_stack_ExecutorEnd of that version: the delegate runs in PG_TRY;
\* PG_CATCH does pg_stack_free and PG_RE_THROW, which leaves the hook; the
\* pg_stack_free after PG_END_TRY runs when the delegate returned
pg_query_stack_ExecutorEnd(stack, ok) ==
    LET catch == IF ok THEN stack ELSE pg_stack_free(stack)
    IN  IF ok
        THEN pg_stack_free(catch)
        ELSE catch

\* MemoryContextReset(pg_query_stack_context); query_stack = NIL
xact_callback_CommitOnly(event, stack) ==
    IF event = "XACT_EVENT_COMMIT"
    THEN NIL
    ELSE stack

xact_callback_PopOne(event, stack) ==
    IF event = "XACT_EVENT_ABORT" \/ event = "XACT_EVENT_COMMIT"
    THEN PopFrame(stack)
    ELSE stack

xact_callback(event, stack) ==
    IF event = "XACT_EVENT_ABORT" \/ event = "XACT_EVENT_COMMIT"
    THEN NIL
    ELSE stack

subxact_callback_CommitToo(event, stack) ==
    IF event = "SUBXACT_EVENT_ABORT_SUB" \/ event = "SUBXACT_EVENT_COMMIT_SUB"
    THEN NIL
    ELSE stack

subxact_callback_PopOne(event, stack) ==
    IF event = "SUBXACT_EVENT_ABORT_SUB"
    THEN PopFrame(stack)
    ELSE stack

subxact_callback(event, stack) ==
    IF event = "SUBXACT_EVENT_ABORT_SUB"
    THEN NIL
    ELSE stack

\* the same callbacks on the memory: MemoryContextReset releases every
\* chunk, and no element is left to point at them
xact_callback_memory(event, cs, context) ==
    IF event = "XACT_EVENT_ABORT" \/ event = "XACT_EVENT_COMMIT"
    THEN [cells |-> NIL, context |-> MemoryContextReset(context)]
    ELSE [cells |-> cs, context |-> context]

subxact_callback_memory(event, cs, context) ==
    IF event = "SUBXACT_EVENT_ABORT_SUB"
    THEN [cells |-> NIL, context |-> MemoryContextReset(context)]
    ELSE [cells |-> cs, context |-> context]

\* foreach(lc, query_stack) of the exporter's first call: every entry of
\* the live stack, and the text of those not skipped, is read
RECURSIVE ReadEntries(_, _, _, _)
ReadEntries(cs, idx, skip_count, context) ==
    IF idx >= Len(cs)
    THEN context
    ELSE ReadEntries(cs, idx + 1, skip_count,
             IF idx < skip_count
             THEN context
             ELSE ReadChunk(ReadChunk(context, cs[idx + 1].entry),
                            cs[idx + 1].query))

(***************************************************************************)
(* The exporter pg_query_stack(_skip_count).                               *)
(***************************************************************************)
\* int skip_count = PG_ARGISNULL(0) ? 0 : PG_GETARG_INT32(0)
GetSkipCount_DeclaredDefault(arg) == IF arg.isnull THEN 1 ELSE arg.value

GetSkipCount(arg) == IF arg.isnull THEN 0 ELSE arg.value

\* if (idx < skip_count) { idx++; continue; }
SkipFrame_Magnitude(idx, skip_count) ==
    idx < (IF skip_count < 0 THEN -skip_count ELSE skip_count)

SkipFrame_Narrow(idx, skip_count) == idx < skip_count % 1000

SkipFrame(idx, skip_count) == idx < skip_count

\* foreach(lc, query_stack): deep copy of the entries that are not skipped
RECURSIVE CopyLoop(_, _, _, _)
CopyLoop(stack, idx, skip_count, stack_copy) ==
    IF idx >= Len(stack)
    THEN stack_copy
    ELSE IF SkipFrame(idx, skip_count)
         THEN CopyLoop(stack, idx + 1, skip_count, stack_copy)
         ELSE CopyLoop(stack, idx + 1, skip_count,
                       lappend(stack_copy, [query |-> stack[idx + 1].query]))

\* values[0] = Int32GetDatum(max_calls - call_cntr - 1)
FrameNumber_OffByOne(max_calls, call_cntr) == max_calls - call_cntr

FrameNumber(max_calls, call_cntr) == max_calls - call_cntr - 1

\* SRF_IS_FIRSTCALL() branch: build the FuncCallContext
FirstCall_CopyAll(stack, skip_count, owner) ==
    LET stack_copy == CopyLoop(stack, 0, 0, NIL)
    IN  [skip_count |-> skip_count,
         user_fctx  |-> stack_copy,
         max_calls  |-> Len(stack_copy),
         call_cntr  |-> 0,
         rows       |-> <<>>,
         done       |-> FALSE,
         init_stack |-> stack,
         owner      |-> owner,
         prior      |-> <<>>]

FirstCall(stack, skip_count, owner) ==
    LET stack_copy == CopyLoop(stack, 0, skip_count, NIL)
    IN  [skip_count |-> skip_count,
         user_fctx  |-> stack_copy,
         max_calls  |-> Len(stack_copy),
         call_cntr  |-> 0,
         rows       |-> <<>>,
         done       |-> FALSE,
         init_stack |-> stack,
         owner      |-> owner,
         prior      |-> <<>>]

\* the per-call part: one row (SRF_RETURN_NEXT) or completion (SRF_RETURN_DONE)
PerCall(ctx) ==
    IF ctx.call_cntr < ctx.max_calls
    THEN [ctx EXCEPT
            !.rows = Append(@, <<FrameNumber(ctx.max_calls, ctx.call_cntr),
                                 ctx.user_fctx[ctx.call_cntr + 1].query>>),
            !.call_cntr = @ + 1]
    ELSE [ctx EXCEPT !.user_fctx = NIL, !.done = TRUE]

\* the complete row sequence of pg_query_stack(skip_count) on a given stack
RECURSIVE Drain(_)
Drain(ctx) == IF ctx.done THEN ctx.rows ELSE Drain(PerCall(ctx))

ExporterRows(stack, skip_count) == Drain(FirstCall(stack, skip_count, 0))

(***************************************************************************)
(* Host bookkeeping.                                                       *)
(***************************************************************************)
\* the record of the last operation: its name, the stack before it (kept for
\* the exporter and the callbacks), the stack depth at the begin of the frame
\* that just ended (-1 when that frame saw a failure or an event), the
\* stack saved when the sub-transaction that was just rolled back had
\* started, the rows a call of pg_self_query() returned, the error the
\* delegate of a hook raised and what left the hook then
\* (<<>> = nothing), the calls the hook delegated, in order, the source
\* text of the frame a begin hook ran for, the number of entries of
\* abandoned frames on the stack before a callback, and the argument the
\* exporter was called with
Op(name, pre, d0, saved) ==
    [op |-> name, pre |-> pre, d0 |-> d0, saved |-> saved, rows |-> <<>>,
     raised |-> <<>>, thrown |-> <<>>, calls |-> <<>>, text |-> NULL,
     stale |-> 0, arg |-> <<>>]

\* the level an unwinding error stops at: the innermost open savepoint
CatchBase == IF subxacts = <<>> THEN 0 ELSE subxacts[Len(subxacts)].base

\* the FuncCallContext is released at SRF_RETURN_DONE, and with the query
\* that owns it
Retire(ctx, depth) ==
    IF ctx = <<>> \/ ctx[1].done \/ ctx[1].owner > depth THEN <<>> ELSE ctx

\* the record of an invocation, taken at its first call: its skip_count and
\* the rows it returns when fetched to completion
Invoked(before, ctx) ==
    IF before = <<>> \/ before[1].done
    THEN <<[skip_count |-> ctx.skip_count, rows |-> Drain(ctx)]>>
    ELSE prev

RetireAll(depth) == [site \in Sites |-> Retire(funcctx[site], depth)]

\* the frame at nesting level frame is unwound without its end hook: its
\* element, if it has one, is the innermost live one pushed at that level
Abandoned(cs, frame) ==
    LET own == {i \in 1..Len(cs) : cs[i].frame = frame /\ ~cs[i].abandoned}
    IN  IF own = {}
        THEN cs
        ELSE LET i == CHOOSE j \in own : \A k \in own : j <= k
             IN  [cs EXCEPT ![i].abandoned = TRUE]

\* the number of elements whose frame was abandoned
StaleEntries(cs) == Cardinality({i \in 1..Len(cs) : cs[i].abandoned})

(***************************************************************************)
(* The hook chains and callback lists of the host, and the loading and     *)
(* unloading of the library.  A hook variable holds the name of the        *)
(* function it points at ("NULL" = none); a callback list holds the        *)
(* registered callbacks, the newest first.                                 *)
(***************************************************************************)
\* a backend in which no library has installed anything; the last four
\* fields record the chain heads found at the install, whether another
\* library registered its hooks after it, whether that other library is
\* loaded and whether it chained to the tracker's hooks
Unhooked ==
    [ExecutorStart_hook  |-> "NULL",
     ExecutorFinish_hook |-> "NULL",
     xact_callbacks      |-> <<>>,
     subxact_callbacks   |-> <<>>,
     prev_ExecutorStart  |-> "NULL",
     prev_ExecutorFinish |-> "NULL",
     library             |-> "unloaded",
     found               |-> <<>>,
     since               |-> FALSE,
     other               |-> FALSE,
     other_over          |-> FALSE]

\* RegisterXactCallback / RegisterSubXactCallback: the new item becomes the
\* head of the list
RegisterCallback(list, callback) == <<callback>> \o list

\* UnregisterXactCallback / UnregisterSubXactCallback: the first item with
\* that callback is removed
RECURSIVE UnregisterCallback(_, _)
UnregisterCallback(list, callback) ==
    IF list = <<>>
    THEN list
    ELSE IF list[1] = callback
         THEN Tail(list)
         ELSE <<list[1]>> \o UnregisterCallback(Tail(list), callback)

\* _PG_init on the hooks and callbacks; the statics prev_ExecutorStart and
\* prev_ExecutorFinish are NULL when the library has just been loaded
PG_init_hooks(h) ==
    [h EXCEPT
        !.prev_ExecutorStart  = h.ExecutorStart_hook,
        !.ExecutorStart_hook  = "pg_query_stack_ExecutorStart",
        !.prev_ExecutorFinish = h.ExecutorFinish_hook,
        !.ExecutorFinish_hook = "pg_query_stack_ExecutorFinish",
        !.xact_callbacks      =
            RegisterCallback(@, "pg_query_stack_xact_callback"),
        !.subxact_callbacks   =
            RegisterCallback(@, "pg_query_stack_subxact_callback"),
        !.library             = "loaded",
        !.found               = <<[ExecutorStart_hook  |-> h.ExecutorStart_hook,
                                   ExecutorFinish_hook |-> h.ExecutorFinish_hook]>>,
        !.since               = FALSE]

\* _PG_fini on the hooks and callbacks
PG_fini_hooks_ToStandard(h) ==
    [h EXCEPT
        !.ExecutorStart_hook  = "NULL",
        !.ExecutorFinish_hook = "NULL",
        !.xact_callbacks      =
            UnregisterCallback(@, "pg_query_stack_xact_callback"),
        !.subxact_callbacks   =
            UnregisterCallback(@, "pg_query_stack_subxact_callback"),
        !.library             = "unloaded"]

PG_fini_hooks(h) ==
    [h EXCEPT
        !.ExecutorStart_hook  = h.prev_ExecutorStart,
        !.ExecutorFinish_hook = h.prev_ExecutorFinish,
        !.xact_callbacks      =
            UnregisterCallback(@, "pg_query_stack_xact_callback"),
        !.subxact_callbacks   =
            UnregisterCallback(@, "pg_query_stack_subxact_callback"),
        !.library             = "unloaded"]

\* the tracker's hooks are the heads of the chains
Installed ==
    /\ hooks.ExecutorStart_hook = "pg_query_stack_ExecutorStart"
    /\ hooks.ExecutorFinish_hook = "pg_query_stack_ExecutorFinish"

\* if (prev_ExecutorStart) prev_ExecutorStart(...) else standard_ExecutorStart(...)
Delegate_ExecutorStart_Standard(h) == "standard_ExecutorStart"

Delegate_ExecutorStart(h) ==
    IF h.prev_ExecutorStart # "NULL"
    THEN h.prev_ExecutorStart
    ELSE "standard_ExecutorStart"

\* if (prev_ExecutorFinish) prev_ExecutorFinish(...) else standard_ExecutorFinish(...)
Delegate_ExecutorFinish(h) ==
    IF h.prev_ExecutorFinish # "NULL"
    THEN h.prev_ExecutorFinish
    ELSE "standard_ExecutorFinish"

\* the calls pg_query_stack_ExecutorFinish delegates, given the stack it
\* is entered with
ExecutorFinish_calls_OnlyIfEntry(h, stack) ==
    IF stack # NIL THEN <<Delegate_ExecutorFinish(h)>> ELSE <<>>

ExecutorFinish_calls(h, stack) == <<Delegate_ExecutorFinish(h)>>

\* the calls pg_query_stack_ExecutorStart delegates: the begin, and when it
\* raised the end, through pg_query_stack_ExecutorFinish, entered with the
\* stack as pushed
ExecutorStart_calls(h, pushed, ok) ==
    <<Delegate_ExecutorStart(h)>> \o
        (IF ok THEN <<>> ELSE ExecutorFinish_calls(h, pushed))

Init ==
    /\ Query_Stack = NIL
    /\ QueryStackContext = NoContext
    /\ cells = NIL
    /\ pg_query_stack_context = AllocSetContextCreate
    /\ hooks = PG_init_hooks(Unhooked)
    /\ query_stack = NIL
    /\ active = <<>>
    /\ subxacts = <<>>
    /\ mode = "run"
    /\ failedFrame = FALSE
    /\ caught = FALSE
    /\ d0s = <<>>
    /\ funcctx = [site \in Sites |-> <<>>]
    /\ prev = <<>>
    /\ enabled = TRUE
    /\ last = Op("_PG_init", NIL, -1, NIL)

(***************************************************************************)
(* Errors.  errordata is the host's stack of errors being processed, the   *)
(* newest last.                                                            *)
(***************************************************************************)
StartError == "error raised by the ExecutorStart delegate"
FinishError == "error raised by the ExecutorFinish delegate"
Crash == "backend terminated (SIGSEGV)"

\* what the ExecutorFinish delegate does when pg_query_stack_ExecutorStart
\* calls it on the QueryDesc whose ExecutorStart has just failed: it
\* returns, it raises, or (queryDesc->estate was never set: the delegate
\* failed before creating it) it dereferences a null pointer
CleanupOutcomes == {"ok", "error", "crash"}

\* ErrorData *errdata = CopyErrorData(): a copy of the newest error
CopyErrorData(errordata) == errordata[Len(errordata)]

\* FlushErrorState(): no error is being processed any more
FlushErrorState(errordata) == <<>>

\* the PG_CATCH block of pg_query_stack_ExecutorStart: what leaves the hook
ExecutorStart_CATCH(errordata, cleanup) ==
    LET errdata == CopyErrorData(errordata)
        flushed == FlushErrorState(errordata)
        \* PG_TRY { pg_query_stack_ExecutorFinish(queryDesc); }
        \* PG_CATCH { FlushErrorState(); }
        inner   == IF cleanup = "error"
                   THEN FlushErrorState(Append(flushed, FinishError))
                   ELSE flushed
    IN  IF cleanup = "crash"
        THEN Crash
        ELSE \* ReThrowError(errdata)
             Append(inner, errdata)[1]

(***************************************************************************)
(* pg_query_stack_ExecutorStart: push, then delegate inside PG_TRY; when   *)
(* the delegate raises, pg_query_stack_ExecutorFinish runs (errors in it   *)
(* are flushed) and the original error is re-thrown.                       *)
(***************************************************************************)
pg_query_stack_ExecutorStart(sourceText, ok, cleanup) ==
    /\ mode = "run"
    /\ Len(active) < MaxNest
    /\ LET pushed == PushFrame(query_stack, sourceText)
           thrown == ExecutorStart_CATCH(<<StartError>>, cleanup)
           pushedCell == PushCell(cells, pg_query_stack_context, sourceText,
                                  Len(active) + 1)
           poppedCell == PopCell(pushedCell.cells, pushedCell.context)
           op     == [Op("ExecutorStart", query_stack, -1, NIL)
                         EXCEPT !.text = sourceText,
                                !.calls = ExecutorStart_calls(hooks, pushed, ok)]
       IN  IF ok
           THEN /\ query_stack' = pushed
                /\ cells' = pushedCell.cells
                /\ pg_query_stack_context' = pushedCell.context
                /\ active' = Append(active, [sourceText |-> sourceText])
                /\ d0s' = Append(d0s, Len(query_stack))
                /\ funcctx' = RetireAll(Len(active))
                /\ last' = op
                /\ UNCHANGED <<subxacts, mode, failedFrame, caught>>
           ELSE IF thrown # Crash
           THEN /\ query_stack' = PopFrame(pushed)
                /\ cells' = poppedCell.cells
                /\ pg_query_stack_context' = poppedCell.context
                /\ mode' = "error"
                /\ failedFrame' = TRUE
                /\ d0s' = <<>>
                /\ funcctx' = RetireAll(Len(active))
                /\ last' = [op EXCEPT !.raised = <<StartError>>,
                                      !.thrown = <<thrown>>]
                /\ UNCHANGED <<active, subxacts, caught>>
           ELSE \* the backend process is gone, and its memory with it
                /\ query_stack' = NIL
                /\ cells' = NIL
                /\ pg_query_stack_context' =
                       MemoryContextReset(pg_query_stack_context)
                /\ active' = <<>>
                /\ subxacts' = <<>>
                /\ mode' = "crashed"
                /\ failedFrame' = FALSE
                /\ caught' = FALSE
                /\ d0s' = <<>>
                /\ funcctx' = [site \in Sites |-> <<>>]
                /\ last' = [op EXCEPT !.pre = NIL,
                                      !.raised = <<StartError>>,
                                      !.thrown = <<thrown>>]
    /\ prev' = <<>>
    /\ UNCHANGED <<enabled, hooks>>
    /\ UNCHANGED <<Query_Stack, QueryStackContext>>

(***************************************************************************)
(* pg_query_stack_ExecutorFinish: pop, then delegate (not in a PG_TRY).    *)
(* The host ends the innermost frame once the savepoints opened inside it  *)
(* are closed.                                                             *)
(***************************************************************************)
pg_query_stack_ExecutorFinish(ok) ==
    /\ mode = "run"
    /\ active # <<>>
    /\ CatchBase < Len(active)
    /\ query_stack' = PopFrame(query_stack)
    /\ cells' = PopCell(cells, pg_query_stack_context).cells
    /\ pg_query_stack_context' = PopCell(cells, pg_query_stack_context).context
    /\ active' = Front(active)
    /\ funcctx' = RetireAll(Len(active) - 1)
    /\ caught' = (caught /\ Len(active) > 1)
    /\ IF ok
       THEN /\ d0s' = Front(d0s)
            /\ UNCHANGED <<mode, failedFrame>>
       ELSE /\ d0s' = <<>>
            /\ mode' = "error"
            /\ failedFrame' = TRUE
    /\ prev' = <<>>
    /\ last' = [Op("ExecutorFinish", query_stack,
                    IF ok /\ d0s # <<>> THEN d0s[Len(d0s)] ELSE -1, NIL)
                    EXCEPT !.raised = IF ok THEN <<>> ELSE <<FinishError>>,
                           !.thrown = IF ok THEN <<>> ELSE <<FinishError>>,
                           !.calls = ExecutorFinish_calls(hooks, query_stack),
                           !.text = active[Len(active)].sourceText]
    /\ UNCHANGED subxacts
    /\ UNCHANGED <<enabled, hooks>>
    /\ UNCHANGED <<Query_Stack, QueryStackContext>>

(***************************************************************************)
(* Host: an error is raised while a frame runs (ExecutorRun, or the        *)
(* procedural code between queries); no hook is called.                    *)
(***************************************************************************)
Raise ==
    /\ mode = "run"
    /\ mode' = "error"
    /\ failedFrame' = FALSE
    /\ d0s' = <<>>
    /\ funcctx' = RetireAll(Len(active))
    /\ UNCHANGED prev
    /\ last' = Op("Raise", NIL, -1, NIL)
    /\ UNCHANGED <<query_stack, active, subxacts, caught>>
    /\ UNCHANGED <<enabled, hooks, cells, pg_query_stack_context>>
    /\ UNCHANGED <<Query_Stack, QueryStackContext>>

(***************************************************************************)
(* Host: the error unwinds past the innermost frame; its ExecutorFinish is *)
(* never called, so its entry stays on the stack.                          *)
(***************************************************************************)
AbandonFrame ==
    /\ mode = "error"
    /\ Len(active) > CatchBase
    /\ active' = Front(active)
    /\ failedFrame' = TRUE
    /\ funcctx' = RetireAll(Len(active) - 1)
    /\ caught' = (caught /\ Len(active) > 1)
    /\ prev' = <<>>
    /\ cells' = IF active[Len(active)].sourceText # NULL
                THEN Abandoned(cells, Len(active))
                ELSE cells
    /\ last' = Op("AbandonFrame", NIL, -1, NIL)
    /\ UNCHANGED <<query_stack, subxacts, mode, d0s>>
    /\ UNCHANGED <<enabled, hooks, pg_query_stack_context>>
    /\ UNCHANGED <<Query_Stack, QueryStackContext>>

(***************************************************************************)
(* pg_query_stack_xact_callback(event).  The host commits only between     *)
(* top-level statements and aborts when an error reaches the top level.    *)
(***************************************************************************)
pg_query_stack_xact_callback(event) ==
    /\ active = <<>>
    /\ subxacts = <<>>
    /\ IF event = "XACT_EVENT_ABORT" THEN mode = "error" ELSE mode = "run"
    /\ query_stack' = xact_callback(event, query_stack)
    /\ cells' = xact_callback_memory(event, cells,
                                     pg_query_stack_context).cells
    /\ pg_query_stack_context' =
           xact_callback_memory(event, cells, pg_query_stack_context).context
    /\ mode' = "run"
    /\ failedFrame' = FALSE
    /\ d0s' = <<>>
    /\ funcctx' = [site \in Sites |-> <<>>]
    /\ prev' = <<>>
    /\ last' = [Op(event, query_stack, -1, NIL)
                    EXCEPT !.stale = StaleEntries(cells)]
    /\ UNCHANGED <<active, subxacts, caught>>
    /\ UNCHANGED <<enabled, hooks>>
    /\ UNCHANGED <<Query_Stack, QueryStackContext>>

(***************************************************************************)
(* pg_query_stack_subxact_callback(event).  A savepoint is opened at the   *)
(* current level; it is released, or rolled back by an error that unwound  *)
(* to it, at the level it was opened at.                                   *)
(***************************************************************************)
pg_query_stack_subxact_callback(event) ==
    /\ \/ /\ event = "SUBXACT_EVENT_START_SUB"
          /\ mode = "run"
          /\ Len(subxacts) < MaxSub
          /\ subxacts' = Append(subxacts, [base |-> Len(active),
                                           saved |-> query_stack])
          /\ last' = Op(event, query_stack, -1, NIL)
          /\ UNCHANGED <<mode, failedFrame, caught>>
       \/ /\ event = "SUBXACT_EVENT_PRE_COMMIT_SUB"
          /\ mode = "run"
          /\ subxacts # <<>>
          /\ CatchBase = Len(active)
          /\ last' = Op(event, query_stack, -1, NIL)
          /\ UNCHANGED <<subxacts, mode, failedFrame, caught>>
       \/ /\ event = "SUBXACT_EVENT_COMMIT_SUB"
          /\ mode = "run"
          /\ subxacts # <<>>
          /\ CatchBase = Len(active)
          /\ subxacts' = Front(subxacts)
          /\ last' = Op(event, query_stack, -1, NIL)
          /\ UNCHANGED <<mode, failedFrame, caught>>
       \/ /\ event = "SUBXACT_EVENT_ABORT_SUB"
          /\ mode = "error"
          /\ subxacts # <<>>
          /\ CatchBase = Len(active)
          /\ subxacts' = Front(subxacts)
          /\ mode' = "run"
          /\ failedFrame' = FALSE
          /\ caught' = (caught \/ (failedFrame /\ Len(active) = 1))
          /\ last' = [Op(event, query_stack, -1,
                          subxacts[Len(subxacts)].saved)
                          EXCEPT !.stale = StaleEntries(cells)]
    /\ UNCHANGED prev
    /\ query_stack' = subxact_callback(event, query_stack)
    /\ cells' = subxact_callback_memory(event, cells,
                                        pg_query_stack_context).cells
    /\ pg_query_stack_context' =
           subxact_callback_memory(event, cells,
                                   pg_query_stack_context).context
    /\ d0s' = <<>>
    /\ funcctx' = RetireAll(Len(active))
    /\ UNCHANGED active
    /\ UNCHANGED <<enabled, hooks>>
    /\ UNCHANGED <<Query_Stack, QueryStackContext>>

\* the exporter keeping its copy in one place shared by all call sites: a
\* first call replaces the copy the other live invocation iterates over
pg_query_stack_SharedCopy(site, arg) ==
    /\ mode = "run"
    /\ active # <<>>
    /\ active[Len(active)].sourceText # NULL
    /\ LET first == funcctx[site] = <<>> \/ funcctx[site][1].done
           ctx   == IF first
                    THEN [FirstCall(query_stack, GetSkipCount(arg),
                                    Len(active)) EXCEPT !.prior = prev]
                    ELSE funcctx[site][1]
           other(s) == Retire(funcctx[s], Len(active))
       IN  /\ ctx.owner = Len(active)
           /\ ctx.skip_count = GetSkipCount(arg)
           /\ funcctx' =
                  [s \in Sites |->
                      IF s = site
                      THEN <<PerCall(ctx)>>
                      ELSE IF first /\ other(s) # <<>>
                           THEN <<[other(s)[1] EXCEPT
                                      !.user_fctx = ctx.user_fctx,
                                      !.max_calls = ctx.max_calls]>>
                           ELSE other(s)]
    /\ pg_query_stack_context' =
           IF funcctx[site] = <<>> \/ funcctx[site][1].done
           THEN ReadEntries(cells, 0, GetSkipCount(arg),
                            pg_query_stack_context)
           ELSE pg_query_stack_context
    /\ last' = [Op("pg_query_stack", query_stack, -1, NIL)
                    EXCEPT !.arg = <<arg>>]
    /\ UNCHANGED <<query_stack, active, subxacts, mode, failedFrame,
                   caught, d0s>>
    /\ UNCHANGED <<enabled, hooks, cells>>
    /\ UNCHANGED <<Query_Stack, QueryStackContext>>

\* the exporter keeping no copy: every call reads the live stack again
pg_query_stack_LiveStack(site, arg) ==
    /\ mode = "run"
    /\ active # <<>>
    /\ active[Len(active)].sourceText # NULL
    /\ LET live == CopyLoop(query_stack, 0, GetSkipCount(arg), NIL)
           ctx  == IF funcctx[site] = <<>> \/ funcctx[site][1].done
                   THEN [FirstCall(query_stack, GetSkipCount(arg),
                                   Len(active)) EXCEPT !.prior = prev]
                   ELSE [funcctx[site][1] EXCEPT !.user_fctx = live,
                                                 !.max_calls = Len(live)]
       IN  /\ ctx.owner = Len(active)
           /\ ctx.skip_count = GetSkipCount(arg)
           /\ funcctx' =
                  [s \in Sites |->
                      IF s = site
                      THEN <<PerCall(ctx)>>
                      ELSE Retire(funcctx[s], Len(active))]
    /\ pg_query_stack_context' =
           IF funcctx[site] = <<>> \/ funcctx[site][1].done
           THEN ReadEntries(cells, 0, GetSkipCount(arg),
                            pg_query_stack_context)
           ELSE pg_query_stack_context
    /\ last' = [Op("pg_query_stack", query_stack, -1, NIL)
                    EXCEPT !.arg = <<arg>>]
    /\ UNCHANGED <<query_stack, active, subxacts, mode, failedFrame,
                   caught, d0s>>
    /\ UNCHANGED <<enabled, hooks, cells>>
    /\ UNCHANGED <<Query_Stack, QueryStackContext>>

(***************************************************************************)
(* pg_query_stack(_skip_count): one call of the set-returning function by  *)
(* the query that contains it (a query with a source text).  The first     *)
(* call builds the FuncCallContext; every call returns a row or completes. *)
(***************************************************************************)
pg_query_stack(site, arg) ==
    /\ mode = "run"
    /\ active # <<>>
    /\ active[Len(active)].sourceText # NULL
    /\ LET ctx == IF funcctx[site] = <<>> \/ funcctx[site][1].done
                  THEN [FirstCall(query_stack, GetSkipCount(arg), Len(active))
                            EXCEPT !.prior = prev]
                  ELSE funcctx[site][1]
       IN  /\ ctx.owner = Len(active)
           /\ ctx.skip_count = GetSkipCount(arg)
           /\ funcctx' =
                  [s \in Sites |->
                      IF s = site
                      THEN <<PerCall(ctx)>>
                      ELSE Retire(funcctx[s], Len(active))]
    /\ pg_query_stack_context' =
           IF funcctx[site] = <<>> \/ funcctx[site][1].done
           THEN ReadEntries(cells, 0, GetSkipCount(arg),
                            pg_query_stack_context)
           ELSE pg_query_stack_context
    /\ last' = [Op("pg_query_stack", query_stack, -1, NIL)
                    EXCEPT !.arg = <<arg>>]
    /\ UNCHANGED <<query_stack, active, subxacts, mode, failedFrame,
                   caught, d0s>>
    /\ UNCHANGED <<enabled, hooks, cells>>
    /\ UNCHANGED <<Query_Stack, QueryStackContext>>

(***************************************************************************)
(* pg_self_query(): the LANGUAGE sql wrapper.  The function executor runs  *)
(* its body, SELECT frame_number, query_text FROM pg_query_stack(2), as a  *)
(* query of its own (a VOLATILE set-returning SQL function is not          *)
(* inlined): ExecutorStart pushes the body's text, the exporter is fetched *)
(* to completion, ExecutorFinish pops.                                     *)
(***************************************************************************)
SelfQueryText == "SELECT frame_number, query_text FROM public.pg_query_stack(2)"

pg_self_query_Offset1(stack) ==
    ExporterRows(PushFrame(stack, SelfQueryText),
                 GetSkipCount([isnull |-> FALSE, value |-> 1]))

pg_self_query_body(stack) ==
    ExporterRows(PushFrame(stack, SelfQueryText),
                 GetSkipCount([isnull |-> FALSE, value |-> 2]))

pg_self_query ==
    /\ mode = "run"
    /\ active # <<>>
    /\ active[Len(active)].sourceText # NULL
    /\ query_stack' = PopFrame(PushFrame(query_stack, SelfQueryText))
    /\ funcctx' = RetireAll(Len(active))
    /\ last' = [Op("pg_self_query", query_stack, -1, NIL)
                    EXCEPT !.rows = pg_self_query_body(query_stack)]
    /\ LET pushedCell == PushCell(cells, pg_query_stack_context,
                                  SelfQueryText, Len(active) + 1)
           readCell   == ReadEntries(pushedCell.cells, 0, 2,
                                     pushedCell.context)
           poppedCell == PopCell(pushedCell.cells, readCell)
       IN  /\ cells' = poppedCell.cells
           /\ pg_query_stack_context' = poppedCell.context
    /\ UNCHANGED <<active, subxacts, mode, failedFrame, caught, d0s, prev>>
    /\ UNCHANGED <<enabled, hooks>>
    /\ UNCHANGED <<Query_Stack, QueryStackContext>>

Next ==
    \/ \E sourceText \in SourceTexts(Len(active) + 1), ok \in BOOLEAN :
          \E cleanup \in (IF ok THEN {"ok"} ELSE CleanupOutcomes) :
              pg_query_stack_ExecutorStart(sourceText, ok, cleanup)
    \/ \E ok \in BOOLEAN : pg_query_stack_ExecutorFinish(ok)
    \/ Raise
    \/ AbandonFrame
    \/ \E event \in XactEvents : pg_query_stack_xact_callback(event)
    \/ \E event \in SubXactEvents : pg_query_stack_subxact_callback(event)
    \/ \E arg \in SkipArgs : pg_query_stack(1, arg) /\ UNCHANGED prev
    \/ pg_self_query

Spec == Init /\ [][Next]_vars

(***************************************************************************)
(* The same backend with the progress of the host stated: an error that    *)
(* is being processed keeps unwinding (siglongjmp to the innermost         *)
(* handler) until a sub-transaction or the transaction is aborted, which   *)
(* runs the callbacks.                                                     *)
(***************************************************************************)
Unwind ==
    \/ AbandonFrame
    \/ pg_query_stack_subxact_callback("SUBXACT_EVENT_ABORT_SUB")
    \/ pg_query_stack_xact_callback("XACT_EVENT_ABORT")

NextLive ==
    \/ \E sourceText \in SourceTexts(Len(active) + 1), ok \in BOOLEAN :
          \E cleanup \in (IF ok THEN {"ok"} ELSE CleanupOutcomes) :
              pg_query_stack_ExecutorStart(sourceText, ok, cleanup)
    \/ \E ok \in BOOLEAN : pg_query_stack_ExecutorFinish(ok)
    \/ Raise
    \/ AbandonFrame
    \/ \E event \in XactEvents : pg_query_stack_xact_callback(event)
    \/ \E event \in SubXactEvents : pg_query_stack_subxact_callback(event)

SpecLive == Init /\ [][NextLive]_vars /\ WF_vars(Unwind)

(***************************************************************************)
(* The backend from its start: the library is loaded (_PG_init) and        *)
(* unloaded (_PG_fini), possibly while queries run, and another library    *)
(* that uses the same hooks and callbacks is loaded before or after it.    *)
(***************************************************************************)
InitLoad ==
    /\ Query_Stack = NIL
    /\ QueryStackContext = NoContext
    /\ cells = NIL
    /\ pg_query_stack_context =
           [state |-> "NULL", chunks |-> {}, fault |-> "none"]
    /\ hooks = Unhooked
    /\ query_stack = NIL
    /\ active = <<>>
    /\ subxacts = <<>>
    /\ mode = "run"
    /\ failedFrame = FALSE
    /\ caught = FALSE
    /\ d0s = <<>>
    /\ funcctx = [site \in Sites |-> <<>>]
    /\ prev = <<>>
    /\ enabled = TRUE
    /\ last = Op("backend start", NIL, -1, NIL)

\* the host calls the tracker's hooks: they head the chains, or the other
\* library's hooks do and delegate to them
Hooked ==
    /\ hooks.library = "loaded"
    /\ \/ Installed
       \/ /\ hooks.ExecutorStart_hook = "other_ExecutorStart"
          /\ hooks.other_over

\* the library is loaded: its statics get their initial values (lines
\* 32-49), then _PG_init runs
_PG_init ==
    /\ hooks.library = "unloaded"
    /\ mode = "run"
    /\ query_stack' = NIL
    /\ cells' = NIL
    /\ pg_query_stack_context' = AllocSetContextCreate
    /\ hooks' = PG_init_hooks([hooks EXCEPT !.prev_ExecutorStart = "NULL",
                                            !.prev_ExecutorFinish = "NULL"])
    /\ d0s' = <<>>
    /\ last' = Op("_PG_init", query_stack, -1, NIL)
    /\ UNCHANGED <<active, subxacts, mode, failedFrame, caught, funcctx,
                   prev, enabled>>
    /\ UNCHANGED <<Query_Stack, QueryStackContext>>

\* the library is unloaded: _PG_fini runs; it assigns neither query_stack
\* nor pg_query_stack_context
_PG_fini ==
    /\ hooks.library = "loaded"
    /\ mode = "run"
    /\ hooks' = PG_fini_hooks(hooks)
    /\ pg_query_stack_context' =
           IF pg_query_stack_context.state # "NULL"
           THEN MemoryContextDelete(pg_query_stack_context)
           ELSE pg_query_stack_context
    /\ d0s' = <<>>
    /\ funcctx' = [site \in Sites |-> <<>>]
    /\ prev' = <<>>
    /\ last' = Op("_PG_fini", query_stack, -1, NIL)
    /\ UNCHANGED <<query_stack, cells, active, subxacts, mode, failedFrame,
                   caught, enabled>>
    /\ UNCHANGED <<Query_Stack, QueryStackContext>>

\* another library installs its hooks and callbacks the same way
other_PG_init ==
    /\ ~hooks.other
    /\ mode = "run"
    /\ hooks' = [hooks EXCEPT
                    !.other_over = Installed,
                    !.other = TRUE,
                    !.since = (hooks.library = "loaded"),
                    !.ExecutorStart_hook = "other_ExecutorStart",
                    !.ExecutorFinish_hook = "other_ExecutorFinish",
                    !.xact_callbacks =
                        RegisterCallback(@, "other_xact_callback"),
                    !.subxact_callbacks =
                        RegisterCallback(@, "other_subxact_callback")]
    /\ last' = Op("other_PG_init", query_stack, -1, NIL)
    /\ UNCHANGED <<query_stack, cells, pg_query_stack_context, active,
                   subxacts, mode, failedFrame, caught, d0s, funcctx, prev,
                   enabled>>
    /\ UNCHANGED <<Query_Stack, QueryStackContext>>

\* a frame begins while the tracker's hook is not in the chain
ExecutorStart_unhooked(sourceText) ==
    /\ ~Hooked
    /\ mode = "run"
    /\ Len(active) < MaxNest
    /\ active' = Append(active, [sourceText |-> sourceText])
    /\ d0s' = <<>>
    /\ last' = Op("ExecutorStart not hooked", query_stack, -1, NIL)
    /\ UNCHANGED <<query_stack, cells, pg_query_stack_context, hooks,
                   subxacts, mode, failedFrame, caught, funcctx, prev,
                   enabled>>
    /\ UNCHANGED <<Query_Stack, QueryStackContext>>

\* a frame ends while the tracker's hook is not in the chain
ExecutorFinish_unhooked ==
    /\ ~Hooked
    /\ mode = "run"
    /\ active # <<>>
    /\ CatchBase < Len(active)
    /\ active' = Front(active)
    /\ d0s' = <<>>
    /\ last' = Op("ExecutorFinish not hooked", query_stack, -1, NIL)
    /\ UNCHANGED <<query_stack, cells, pg_query_stack_context, hooks,
                   subxacts, mode, failedFrame, caught, funcctx, prev,
                   enabled>>
    /\ UNCHANGED <<Query_Stack, QueryStackContext>>

\* the exporter calls of this backend: pg_query_stack(0) in top-level
\* statements
LoadArgs == {arg \in SkipArgs : ~arg.isnull /\ arg.value = 0}

NextLoad ==
    \/ _PG_init
    \/ _PG_fini
    \/ other_PG_init
    \/ \E sourceText \in SourceTexts(Len(active) + 1) :
          ExecutorStart_unhooked(sourceText)
    \/ ExecutorFinish_unhooked
    \/ \E sourceText \in SourceTexts(Len(active) + 1), ok \in BOOLEAN :
          \E cleanup \in (IF ok THEN {"ok"} ELSE CleanupOutcomes) :
              Hooked /\ pg_query_stack_ExecutorStart(sourceText, ok, cleanup)
    \/ \E ok \in BOOLEAN : Hooked /\ pg_query_stack_ExecutorFinish(ok)
    \/ Hooked /\ Raise
    \/ Hooked /\ AbandonFrame
    \/ \E event \in XactEvents :
          Hooked /\ pg_query_stack_xact_callback(event)
    \/ \E event \in SubXactEvents :
          Hooked /\ pg_query_stack_subxact_callback(event)
    \/ \E arg \in LoadArgs :
          /\ Hooked
          /\ Len(active) = 1
          /\ pg_query_stack(1, arg)
          /\ UNCHANGED prev

SpecLoad == InitLoad /\ [][NextLoad]_vars

(***************************************************************************)
(* The same backend running queries that hold two call sites of the        *)
(* exporter (test_nested_cte): the second site is entered while the        *)
(* invocation of the first is live.                                        *)
(***************************************************************************)
\* the _skip_count arguments of these queries: pg_query_stack(0) as in the
\* test, and the default
CteArgs == {arg \in SkipArgs : ~arg.isnull /\ arg.value \in {0, 1}}

NextCte ==
    \/ \E sourceText \in SourceTexts(Len(active) + 1), ok \in BOOLEAN :
          \E cleanup \in (IF ok THEN {"ok"} ELSE CleanupOutcomes) :
              pg_query_stack_ExecutorStart(sourceText, ok, cleanup)
    \/ \E ok \in BOOLEAN : pg_query_stack_ExecutorFinish(ok)
    \/ Raise
    \/ AbandonFrame
    \/ \E event \in XactEvents : pg_query_stack_xact_callback(event)
    \/ \E event \in SubXactEvents :
          \* these queries run under one savepoint at most
          /\ event = "SUBXACT_EVENT_START_SUB" => subxacts = <<>>
          /\ pg_query_stack_subxact_callback(event)
    \/ \E site \in Sites, arg \in CteArgs :
          /\ site = 2 => (funcctx[1] # <<>> /\ ~funcctx[1][1].done)
                            \/ funcctx[2] # <<>>
          /\ pg_query_stack(site, arg)
          /\ UNCHANGED prev

SpecCte == Init /\ [][NextCte]_vars

(***************************************************************************)
(* The same backend with the record of the last invocation kept, for       *)
(* queries that call the exporter twice in a row.                          *)
(***************************************************************************)
NextTwice ==
    \/ \E sourceText \in SourceTexts(Len(active) + 1), ok \in BOOLEAN :
          \E cleanup \in (IF ok THEN {"ok"} ELSE CleanupOutcomes) :
              pg_query_stack_ExecutorStart(sourceText, ok, cleanup)
    \/ \E ok \in BOOLEAN : pg_query_stack_ExecutorFinish(ok)
    \/ Raise
    \/ AbandonFrame
    \/ \E event \in XactEvents : pg_query_stack_xact_callback(event)
    \/ \E event \in SubXactEvents : pg_query_stack_subxact_callback(event)
    \/ \E arg \in SkipArgs :
          /\ pg_query_stack(1, arg)
          /\ prev' = Invoked(funcctx[1], funcctx'[1][1])

SpecTwice == Init /\ [][NextTwice]_vars

(***************************************************************************)
(* The tracker as spec.md describes it: the capacity bound MAX_DEPTH, the  *)
(* truncation of long texts and the enable switch.  None of the versions   *)
(* of pg_query_stack.c in src/ has these, so this part follows spec.md     *)
(* sections 3, 4.1, 4.2, 4.3 and 4.5.  Here the stack holds FrameEntry     *)
(* records, the outermost first; a text is a sequence of characters.       *)
(***************************************************************************)
\* the capacity of the FrameStack and the size bound of a text, scaled down
MAX_DEPTH == 2
MAX_TEXT_LEN == 2
TruncationMarker == <<".", ".", ".">>

\* the texts of the query at a nesting level: under, at and over the bound
FrameTexts(level) ==
    {[i \in 1..n |-> AllTexts[level]] :
        n \in {1, MAX_TEXT_LEN, MAX_TEXT_LEN + 1, MAX_TEXT_LEN + 2}}

\* FrameEntry: the text, or its truncated copy with the marker appended
FrameEntry_NoMarker(text) ==
    IF Len(text) > MAX_TEXT_LEN
    THEN [text |-> SubSeq(text, 1, MAX_TEXT_LEN), truncated |-> TRUE]
    ELSE [text |-> text, truncated |-> FALSE]

FrameEntry(text) ==
    IF Len(text) > MAX_TEXT_LEN
    THEN [text |-> SubSeq(text, 1, MAX_TEXT_LEN) \o TruncationMarker,
          truncated |-> TRUE]
    ELSE [text |-> text, truncated |-> FALSE]

\* push(text) -> bool
push_OffByOne(stack, text) ==
    IF Len(stack) <= MAX_DEPTH
    THEN [stack |-> Append(stack, FrameEntry(text)), pushed |-> TRUE]
    ELSE [stack |-> stack, pushed |-> FALSE]

push(stack, text) ==
    IF Len(stack) < MAX_DEPTH
    THEN [stack |-> Append(stack, FrameEntry(text)), pushed |-> TRUE]
    ELSE [stack |-> stack, pushed |-> FALSE]

\* pop(): no-op if already empty
pop(stack) == IF Len(stack) > 0 THEN Front(stack) ELSE stack

\* reset()
reset(stack) == <<>>

\* the Snapshot of section 4.4: skip_count clamped to [0, MAX_DEPTH], the
\* rows (frame_number, text) of the entries [0, effective)
stack_snapshot(stack, skip_count) ==
    LET k == IF skip_count < 0 THEN 0
             ELSE IF skip_count > MAX_DEPTH THEN MAX_DEPTH ELSE skip_count
        effective == IF Len(stack) - k > 0 THEN Len(stack) - k ELSE 0
    IN  [i \in 1..effective |-> <<i - 1, stack[i].text>>]

\* the record of the last operation of the tracker
TrackerOp(name, pre, text, on, ok) ==
    [op |-> name, pre |-> pre, text |-> text, enabled |-> on, ok |-> ok]

\* the hook checks the switch first: whether it tracks this notification
Tracks_Always(on) == TRUE

Tracks(on) == on

\* frame begin: the switch, push, the delegated call in its failure boundary
frame_begin(text, ok) ==
    /\ mode = "run"
    /\ Len(active) < MaxNest
    /\ LET r == push(query_stack, text)
       IN  IF ~Tracks(enabled)
           THEN UNCHANGED query_stack
           ELSE IF ok
                THEN query_stack' =
                        IF r.pushed
                        THEN [r.stack EXCEPT ![Len(r.stack)] =
                                 [text |-> @.text, truncated |-> @.truncated,
                                  startedEnabled |-> enabled]]
                        ELSE r.stack
                ELSE query_stack' = IF r.pushed THEN pop(r.stack) ELSE r.stack
    /\ IF ok
       THEN /\ active' = Append(active, [sourceText |-> text])
            /\ UNCHANGED mode
       ELSE /\ mode' = "error"
            /\ UNCHANGED active
    /\ last' = TrackerOp("frame_begin", query_stack, text, enabled, ok)
    /\ UNCHANGED <<subxacts, failedFrame, caught, d0s, funcctx, prev, enabled,
                   cells, pg_query_stack_context, hooks>>
    /\ UNCHANGED <<Query_Stack, QueryStackContext>>

\* frame end: the switch, the delegated call, pop (also when it fails)
frame_end(ok) ==
    /\ mode = "run"
    /\ active # <<>>
    /\ query_stack' = IF Tracks(enabled) THEN pop(query_stack) ELSE query_stack
    /\ active' = Front(active)
    /\ mode' = IF ok THEN "run" ELSE "error"
    /\ last' = TrackerOp("frame_end", query_stack, <<>>, enabled, ok)
    /\ UNCHANGED <<subxacts, failedFrame, caught, d0s, funcctx, prev, enabled,
                   cells, pg_query_stack_context, hooks>>
    /\ UNCHANGED <<Query_Stack, QueryStackContext>>

\* the session-scope switch is set, between or inside queries
set_enabled(on) ==
    /\ mode = "run"
    /\ enabled' = on
    /\ last' = TrackerOp("set_enabled", query_stack, <<>>, on, TRUE)
    /\ UNCHANGED <<query_stack, active, subxacts, mode, failedFrame, caught,
                   d0s, funcctx, prev, cells, pg_query_stack_context, hooks>>
    /\ UNCHANGED <<Query_Stack, QueryStackContext>>

\* the transaction ends: a commit between top-level statements, or the
\* abort an error leads to; reset() unconditionally
transaction_end ==
    /\ mode = "error" \/ active = <<>>
    /\ query_stack' = reset(query_stack)
    /\ active' = <<>>
    /\ mode' = "run"
    /\ last' = TrackerOp("transaction_end", query_stack, <<>>, enabled, TRUE)
    /\ UNCHANGED <<subxacts, failedFrame, caught, d0s, funcctx, prev, enabled,
                   cells, pg_query_stack_context, hooks>>
    /\ UNCHANGED <<Query_Stack, QueryStackContext>>

NextTracker ==
    \/ \E text \in FrameTexts(Len(active) + 1), ok \in BOOLEAN :
          frame_begin(text, ok)
    \/ \E ok \in BOOLEAN : frame_end(ok)
    \/ \E on \in BOOLEAN : set_enabled(on)
    \/ transaction_end

SpecTracker == Init /\ [][NextTracker]_vars

(***************************************************************************)
(* Properties.                                                             *)
(***************************************************************************)
Ctxs == UNION {{funcctx[site][i] : i \in 1..Len(funcctx[site])} : site \in Sites}

RowSet(ctx) == {ctx.rows[j] : j \in 1..Len(ctx.rows)}

\* C1: balance.  When a frame ends whose begin, end and everything nested
\* in between delegated successfully, with no transaction or
\* sub-transaction event since its begin, the stack depth after its
\* ExecutorFinish equals the depth before its ExecutorStart, with or
\* without a source text.
C1_Balance ==
    (last.op = "ExecutorFinish" /\ last.d0 >= 0) =>
        Len(query_stack) = last.d0

\* C2: skip_count = k with 0 <= k <= D on a stack of D entries returns
\* exactly the rows (i, text of the i-th entry counted from the outermost)
\* for 0 <= i < D - k, one row each.
C2_SkipInnermost ==
    \A c \in Ctxs :
        LET D == Len(c.init_stack)
            k == c.skip_count
        IN  (c.done /\ 0 <= k /\ k <= D) =>
                /\ RowSet(c) = {<<i, c.init_stack[D - i].query>> :
                                    i \in 0..(D - k - 1)}
                /\ Len(c.rows) = D - k

\* the chain A -> B -> C with the exporter called in C, skip_count = 1
C2_Witness ==
    \E c \in Ctxs :
        /\ c.done
        /\ c.skip_count = 1
        /\ c.init_stack = <<[query |-> "C"], [query |-> "B"], [query |-> "A"]>>
        /\ RowSet(c) = {<<0, "A">>, <<1, "B">>}

\* C3: the rows of one invocation are emitted in ascending frame_number
\* order: the j-th row emitted (j = 1, 2, ...) has frame_number j - 1.
C3_AscendingEmission ==
    \A c \in Ctxs :
        \A j \in 1..Len(c.rows) : c.rows[j][1] = j - 1

\* C4: failure unwind.  A (with a source text) is the outermost frame, a
\* frame nested in A failed and the failure was caught inside A; an
\* exporter call made afterwards by a query nested in A with
\* skip_count = 1 returns exactly the row (0, A-text).
C4_FailureUnwind ==
    \A c \in Ctxs :
        ( /\ c.done
          /\ c.skip_count = 1
          /\ c.owner = 2
          /\ Len(active) = 2
          /\ caught
          /\ active[1].sourceText # NULL ) =>
            c.rows = << <<0, active[1].sourceText>> >>

\* C5: immediately after a sub-transaction is rolled back the stack equals
\* the stack as it was when that sub-transaction started.
C5_RollbackRestores ==
    last.op = "SUBXACT_EVENT_ABORT_SUB" => query_stack = last.saved

\* C6: in every non-empty exporter result the row with frame_number 0
\* carries the text of the outermost active query.
C6_RowZeroIsTopLevel ==
    \A c \in Ctxs :
        active[1].sourceText # NULL =>
            \A j \in 1..Len(c.rows) :
                c.rows[j][1] = 0 => c.rows[j][2] = active[1].sourceText

\* C7: a negative skip_count returns the row sequence of skip_count = 0 on
\* the same stack: every entry of the stack, none skipped.
C7_NegativeSkipIsZero ==
    \A c \in Ctxs :
        c.skip_count < 0 =>
            /\ c.max_calls = Len(c.init_stack)
            /\ c.rows = SubSeq(ExporterRows(c.init_stack, 0), 1, c.call_cntr)
            /\ c.done => c.rows = ExporterRows(c.init_stack, 0)

C7_Witness ==
    \E c \in Ctxs :
        /\ c.skip_count < 0
        /\ c.done
        /\ Len(c.rows) = 3

\* C8: skip_count >= D on a stack of D entries returns zero rows and
\* completes at the first call, and no call of the exporter changes the
\* stack; the default skip_count = 1 in a top-level statement returns zero
\* rows.
C8_SkipAllIsEmpty ==
    /\ \A c \in Ctxs :
          /\ c.skip_count >= Len(c.init_stack) =>
                (c.done /\ c.rows = <<>> /\ c.max_calls = 0)
          /\ (c.skip_count = 1 /\ c.owner = 1) => (c.done /\ c.rows = <<>>)
    /\ last.op = "pg_query_stack" => query_stack = last.pre

C8_Witness ==
    \E c \in Ctxs :
        /\ c.skip_count = 100000
        /\ Len(c.init_stack) = 3
        /\ c.done
        /\ c.rows = <<>>
        /\ query_stack = c.init_stack

\* C9: the exporter called with skip_count = 0 by a top-level statement
\* returns exactly one row, (0, the text of that statement).
C9_TopLevelSelf ==
    \A c \in Ctxs :
        (c.done /\ c.skip_count = 0 /\ c.owner = 1 /\ Len(active) = 1) =>
            c.rows = << <<0, active[1].sourceText>> >>

\* C10: after the transaction callback ran for XACT_EVENT_COMMIT or
\* XACT_EVENT_ABORT the stack is empty.
C10_XactEndEmpties ==
    (last.op = "XACT_EVENT_COMMIT" \/ last.op = "XACT_EVENT_ABORT") =>
        query_stack = NIL

C10_Witness ==
    /\ last.op = "XACT_EVENT_ABORT"
    /\ Len(last.pre) >= 2
    /\ query_stack = NIL

\* C11: what an exporter invocation returns is determined by the stack at
\* its first call: at every moment the rows returned so far are the first
\* call_cntr rows of the result computed from that stack, and the complete
\* result is exactly that result, whatever frames began or ended and
\* whatever callbacks reset the live stack between the calls.
C11_SnapshotIndependent ==
    \A c \in Ctxs :
        LET result == ExporterRows(c.init_stack, c.skip_count)
        IN  /\ c.max_calls = Len(result)
            /\ c.rows = SubSeq(result, 1, c.call_cntr)
            /\ c.done => c.rows = result

\* an invocation that returned two rows although the live stack was reset
\* after its first call
C11_Witness ==
    \E c \in Ctxs :
        /\ c.done
        /\ Len(c.rows) = 2
        /\ query_stack = NIL

\* C12: no call of the exporter changes the live stack, and two successive
\* invocations made by the same frame with the same skip_count, no frame
\* having begun or ended between them, return identical rows.
C12_ExporterReadOnly ==
    /\ last.op = "pg_query_stack" => query_stack = last.pre
    /\ \A c \in Ctxs :
          (c.done /\ c.prior # <<>> /\ c.prior[1].skip_count = c.skip_count)
              => c.rows = c.prior[1].rows

\* C13: pg_self_query() called in a query Q returns the rows that
\* pg_query_stack() with the default skip_count = 1 returns when called
\* directly in Q, on the same stack.
C13_SelfQueryWrapper ==
    last.op = "pg_self_query" =>
        last.rows = ExporterRows(last.pre, GetSkipCount([isnull |-> FALSE,
                                                         value |-> 1]))

\* the chain A -> B -> C with pg_self_query() called in C
C13_Witness ==
    /\ last.op = "pg_self_query"
    /\ Len(active) = 3
    /\ last.rows = << <<1, "B">>, <<0, "A">> >>
    /\ query_stack = last.pre

\* C14: a sub-transaction event other than SUBXACT_EVENT_ABORT_SUB (the
\* start, the pre-commit and the commit of a sub-transaction) changes
\* neither the depth nor any entry of the stack, so an exporter call after
\* it returns what it returned before it.
C14_SubxactNoOp ==
    last.op \in (SubXactEvents \ {"SUBXACT_EVENT_ABORT_SUB"}) =>
        /\ query_stack = last.pre
        /\ \A arg \in SkipArgs :
              ExporterRows(query_stack, GetSkipCount(arg)) =
                  ExporterRows(last.pre, GetSkipCount(arg))

\* a sub-transaction opened inside B (nested in A) is committed while the
\* entries of B and A are on the stack
C14_Witness ==
    /\ last.op = "SUBXACT_EVENT_COMMIT_SUB"
    /\ Len(active) = 2
    /\ query_stack = <<[query |-> "B"], [query |-> "A"]>>

\* C15: of two exporter invocations live at the same time, each returns
\* the rows of its own snapshot, in full when fetched to completion,
\* however the calls of the two are interleaved and whether the other one
\* is fetched, finished or left unfinished.
C15_TwoInvocations ==
    \A s, t \in Sites :
        (s # t /\ funcctx[s] # <<>> /\ funcctx[t] # <<>>) =>
            LET c    == funcctx[s][1]
                own  == ExporterRows(c.init_stack, c.skip_count)
            IN  /\ c.max_calls = Len(own)
                /\ c.call_cntr <= c.max_calls
                /\ \A j \in 1..Len(c.rows) : c.rows[j] = own[j]
                /\ Len(c.rows) = c.call_cntr
                /\ c.done => Len(c.rows) = Len(own)

\* two pg_query_stack(0) invocations of the query B nested in A: the second
\* has returned its two rows and completed while the first, begun before
\* it, has returned one row
C15_Witness ==
    /\ funcctx[1] # <<>>
    /\ funcctx[2] # <<>>
    /\ funcctx[1][1].owner = 2
    /\ funcctx[2][1].owner = 2
    /\ funcctx[1][1].skip_count = 0
    /\ funcctx[2][1].skip_count = 0
    /\ ~funcctx[1][1].done
    /\ funcctx[1][1].rows = << <<1, "B">> >>
    /\ funcctx[2][1].done
    /\ funcctx[2][1].rows = << <<1, "B">>, <<0, "A">> >>

\* C16: when the call delegated by pg_query_stack_ExecutorStart raises, what
\* reaches the caller of the hook is that same error, also when the
\* compensating pg_query_stack_ExecutorFinish raises an error of its own.
C16_OriginalErrorRethrown ==
    (last.op = "ExecutorStart" /\ last.raised # <<>>) =>
        (mode = "error" /\ last.thrown = last.raised)

\* C20: an exporter invocation on a stack of D entries emits one row per
\* call, at most effective = max(0, D - skip_count) rows (a negative
\* skip_count counting as 0), and completes at the call after the last row,
\* with exactly effective rows emitted and its copy released.
C20_FiniteOneShot ==
    \A c \in Ctxs :
        LET D == Len(c.init_stack)
            k == IF c.skip_count < 0 THEN 0 ELSE c.skip_count
            effective == IF D - k > 0 THEN D - k ELSE 0
        IN  /\ c.max_calls = effective
            /\ Len(c.rows) = c.call_cntr
            /\ c.call_cntr <= effective
            /\ ~c.done => (c.call_cntr >= 1 /\ Len(c.user_fctx) = effective)
            /\ c.done => (c.call_cntr = effective /\ c.user_fctx = NIL)

\* pg_query_stack(1) on the stack C, B, A: two rows, then completion
C20_Witness ==
    \E c \in Ctxs :
        /\ c.done
        /\ c.skip_count = 1
        /\ Len(c.init_stack) = 3
        /\ c.call_cntr = 2
        /\ Len(c.rows) = 2

\* C17: however many frames begin, the stack depth never exceeds MAX_DEPTH;
\* a begin that arrives when the stack is at capacity leaves the stack
\* unchanged, and a begin whose delegated call succeeds raises no error.
C17_Capacity ==
    /\ Len(query_stack) <= MAX_DEPTH
    /\ last.op = "frame_begin" =>
          /\ Len(last.pre) >= MAX_DEPTH => query_stack = last.pre
          /\ last.ok => mode = "run"

\* a third nested frame begins, with the switch on, while the stack holds
\* MAX_DEPTH entries
C17_Witness ==
    /\ last.op = "frame_begin"
    /\ last.ok
    /\ last.enabled
    /\ Len(last.pre) = MAX_DEPTH
    /\ Len(active) = MAX_DEPTH + 1
    /\ query_stack = last.pre

\* C18: a frame whose text is longer than MAX_TEXT_LEN is stored with
\* length exactly MAX_TEXT_LEN + the marker's length, ending in the
\* marker; a frame whose text is at or under the bound is stored unmodified.
C18_Truncation ==
    (last.op = "frame_begin" /\ last.ok
        /\ Len(query_stack) = Len(last.pre) + 1) =>
        LET stored == query_stack[Len(query_stack)].text
            n      == Len(stored)
        IN  IF Len(last.text) > MAX_TEXT_LEN
            THEN /\ n = MAX_TEXT_LEN + Len(TruncationMarker)
                 /\ SubSeq(stored, MAX_TEXT_LEN + 1, n) = TruncationMarker
                 /\ SubSeq(stored, 1, MAX_TEXT_LEN) =
                        SubSeq(last.text, 1, MAX_TEXT_LEN)
            ELSE stored = last.text

\* a text two characters over the bound is stored cut, with the marker
C18_Witness ==
    /\ last.op = "frame_begin"
    /\ last.text = <<"A", "A", "A", "A">>
    /\ query_stack # <<>>
    /\ query_stack[Len(query_stack)].text = <<"A", "A", ".", ".", ".">>

\* C19: with the switch off, frame begins and ends leave the stack as it
\* is, so no entry of the stack, hence no row of a snapshot, belongs to a
\* frame that began while the switch was off; a frame that begins with the
\* switch on (again) and the stack under capacity is pushed.
C19_DisabledMode ==
    /\ (last.op \in {"frame_begin", "frame_end"} /\ ~last.enabled) =>
            query_stack = last.pre
    /\ \A k \in SkipValues :
          LET rows == stack_snapshot(query_stack, k)
          IN  \A j \in 1..Len(rows) :
                  /\ query_stack[j].startedEnabled
                  /\ rows[j] = <<j - 1, query_stack[j].text>>
    /\ (last.op = "frame_begin" /\ last.enabled /\ last.ok
            /\ Len(last.pre) < MAX_DEPTH) =>
            /\ Len(query_stack) = Len(last.pre) + 1
            /\ query_stack[Len(query_stack)].text = FrameEntry(last.text).text

\* A began while the switch was off and has no entry; the switch is turned
\* on and B, nested in A, begins: its entry is the only one
C19_Witness ==
    /\ last.op = "frame_begin"
    /\ last.enabled
    /\ Len(active) = 2
    /\ Len(query_stack) = 1
    /\ query_stack[1].text = <<"B">>
    /\ stack_snapshot(query_stack, 0) = << <<0, <<"B">> >> >>

\* C21: in every reachable state the stack has one entry per frame that
\* has begun and not ended, and the entries are those frames in nesting
\* order (the newest first), after any sequence of begins, ends, failures,
\* transaction events and sub-transaction aborts.
C21_EntriesAreActiveFrames ==
    /\ Len(query_stack) = Len(active)
    /\ \A i \in 1..Len(active) :
          query_stack[Len(query_stack) - i + 1].query = active[i].sourceText

\* C22: immediately after the sub-transaction callback ran for
\* SUBXACT_EVENT_ABORT_SUB the stack is empty, whatever was pushed before
\* or inside the aborted sub-transaction.
C22_AbortSubEmpties ==
    last.op = "SUBXACT_EVENT_ABORT_SUB" =>
        (query_stack = NIL /\ Len(query_stack) = 0)

\* a savepoint opened in A, B nested in the block fails and is unwound:
\* the abort finds the entries of B and A, one pushed inside and one
\* before the sub-transaction
C22_Witness ==
    /\ last.op = "SUBXACT_EVENT_ABORT_SUB"
    /\ last.saved = <<[query |-> "A"]>>
    /\ last.pre = <<[query |-> "B"], [query |-> "A"]>>
    /\ query_stack = NIL

\* C23: when the call delegated by pg_query_stack_ExecutorStart raises and
\* the hook has propagated the failure, the stack is the stack before the
\* begin notification, whether or not the failing frame has a source text.
C23_StartFailureRestores ==
    (last.op = "ExecutorStart" /\ last.raised # <<>> /\ mode = "error") =>
        query_stack = last.pre

\* C24: a frame-end notification removes exactly one entry, the head,
\* whether the delegated call returns or raises; so does, on the same
\* stack and outcome, the pg_query_stack_ExecutorEnd hook of the version
\* that pops in PG_CATCH and after PG_END_TRY.
C24_EndPopsOnce ==
    (last.op = "ExecutorFinish" /\ last.pre # NIL) =>
        /\ Len(query_stack) = Len(last.pre) - 1
        /\ query_stack = SubSeq(last.pre, 2, Len(last.pre))
        /\ \A ok \in BOOLEAN :
              pg_query_stack_ExecutorEnd(last.pre, ok) =
                  SubSeq(last.pre, 2, Len(last.pre))

\* the end of B, nested in A, whose delegated call raises: the entry of B
\* is gone, the entry of A is there
C24_Witness ==
    /\ last.op = "ExecutorFinish"
    /\ last.raised # <<>>
    /\ last.pre = <<[query |-> "B"], [query |-> "A"]>>
    /\ query_stack = <<[query |-> "A"]>>

\* C25: a frame-end notification that arrives when the stack is empty
\* leaves it empty, raises no error of its own and delegates once to the
\* previous end observer.
C25_PopOnEmpty ==
    (last.op = "ExecutorFinish" /\ last.pre = NIL) =>
        /\ query_stack = NIL
        /\ last.calls = <<Delegate_ExecutorFinish(hooks)>>
        /\ last.thrown = last.raised

\* the end of a frame with a source text whose entry a reset had removed
C25_Witness ==
    /\ last.op = "ExecutorFinish"
    /\ last.pre = NIL
    /\ last.text # NULL
    /\ last.raised = <<>>
    /\ query_stack = NIL
    /\ last.calls = <<"standard_ExecutorFinish">>

\* the begin and end observers a hook can delegate to
BeginObservers == {"standard_ExecutorStart", "other_ExecutorStart"}
EndObservers == {"standard_ExecutorFinish", "other_ExecutorFinish"}

\* the number of calls to one of the observers in a sequence of calls
CallsTo(observers, calls) ==
    Cardinality({i \in 1..Len(calls) : calls[i] \in observers})

C27_InstallUninstall ==
    last.op = "_PG_fini" =>
        /\ ~hooks.since =>
              /\ hooks.ExecutorStart_hook = hooks.found[1].ExecutorStart_hook
              /\ hooks.ExecutorFinish_hook = hooks.found[1].ExecutorFinish_hook
        /\ \A i \in 1..Len(hooks.xact_callbacks) :
              hooks.xact_callbacks[i] # "pg_query_stack_xact_callback"
        /\ \A i \in 1..Len(hooks.subxact_callbacks) :
              hooks.subxact_callbacks[i] # "pg_query_stack_subxact_callback"
        /\ hooks.xact_callbacks =
              IF hooks.other THEN <<"other_xact_callback">> ELSE <<>>
        /\ hooks.subxact_callbacks =
              IF hooks.other THEN <<"other_subxact_callback">> ELSE <<>>

\* the tracker was installed over the other library's hooks and is
\* uninstalled: the other library's hooks head the chains again
C27_Witness ==
    /\ last.op = "_PG_fini"
    /\ ~hooks.since
    /\ hooks.found[1].ExecutorStart_hook = "other_ExecutorStart"
    /\ hooks.ExecutorStart_hook = "other_ExecutorStart"
    /\ hooks.ExecutorFinish_hook = "other_ExecutorFinish"
    /\ hooks.xact_callbacks = <<"other_xact_callback">>

\* C28: after _PG_fini ran while entries were on the stack, query_stack is
\* NIL and neither query_stack nor pg_query_stack_context refers to
\* released memory.
C28_FiniDrains ==
    (last.op = "_PG_fini" /\ last.pre # NIL) =>
        /\ query_stack = NIL
        /\ cells = NIL
        /\ pg_query_stack_context.state # "deleted"

\* the chunks the elements of the stack point at
CellChunks ==
    {cells[i].entry : i \in 1..Len(cells)} \cup
    {cells[i].query : i \in 1..Len(cells)}

\* C29: over any sequence of begins, ends, failures, resets and teardown,
\* no entry or text copy is released twice and none is read or popped
\* after its release; while the library is loaded the allocated chunks are
\* exactly those of the entries on the stack, two per entry (none leaked,
\* none shared); after teardown none is allocated.
C29_ReleasedOnce ==
    /\ pg_query_stack_context.fault = "none"
    /\ hooks.library = "loaded" =>
          /\ pg_query_stack_context.chunks = CellChunks
          /\ Cardinality(CellChunks) = 2 * Len(cells)
    /\ hooks.library = "unloaded" =>
          pg_query_stack_context.chunks = {}

\* teardown while the entries of B and A are on the stack: their four
\* chunks are released
C29_Witness ==
    /\ last.op = "_PG_fini"
    /\ Len(last.pre) = 2
    /\ Len(cells) = 2
    /\ pg_query_stack_context.chunks = {}
    /\ pg_query_stack_context.state = "deleted"

\* C30: the entry of a frame abandoned by an error is on the stack only
\* while that error unwinds: a frame whose delegated begin raised has its
\* entry removed by the one compensating pop of the begin hook; the entry
\* of a frame unwound later is eventually removed by the reset that aborts
\* the enclosing sub-transaction or transaction; no entry of an abandoned
\* frame is there when execution resumes, and none at all between
\* top-level statements.
C30_AbandonedRemoved ==
    /\ []((last.op = "ExecutorStart" /\ last.raised # <<>>
              /\ last.text # NULL /\ mode = "error") =>
                query_stack = last.pre)
    /\ [](mode = "run" => StaleEntries(cells) = 0)
    /\ []((mode = "run" /\ active = <<>>) => query_stack = NIL)
    /\ (StaleEntries(cells) > 0) ~> (query_stack = NIL)

\* B, nested in a savepoint block of A, was unwound by an error: the abort
\* of the sub-transaction found its entry and removed it
C30_Witness ==
    /\ last.op = "SUBXACT_EVENT_ABORT_SUB"
    /\ last.stale = 1
    /\ Len(last.pre) = 2
    /\ Len(active) = 1
    /\ StaleEntries(cells) = 0
    /\ query_stack = NIL

\* C39: an explicit NULL _skip_count is treated as 0, not as the declared
\* default 1: an invocation called with NULL returns the rows
\* pg_query_stack(0) returns on the same stack, the innermost entry
\* included, and on a stack that is not empty these are not the rows of
\* pg_query_stack(1).
C39_NullIsZero ==
    (last.op = "pg_query_stack" /\ last.arg[1].isnull) =>
        \A c \in Ctxs :
            LET zero == [isnull |-> FALSE, value |-> 0]
                one  == [isnull |-> FALSE, value |-> 1]
                D    == Len(c.init_stack)
            IN  /\ c.skip_count = 0
                /\ Drain(c) = ExporterRows(c.init_stack, GetSkipCount(zero))
                /\ Len(Drain(c)) = D
                /\ D > 0 =>
                      /\ <<FrameNumber(D, 0), c.init_stack[1].query>>
                             \in RowSet([rows |-> Drain(c)])
                      /\ Drain(c) #
                             ExporterRows(c.init_stack, GetSkipCount(one))

\* B, nested in A, calls pg_query_stack(NULL) on the stack [B, A] and has
\* fetched its own row
C39_Witness ==
    /\ last.op = "pg_query_stack"
    /\ last.arg[1].isnull
    /\ last.pre = <<[query |-> "B"], [query |-> "A"]>>
    /\ funcctx[1] # <<>>
    /\ funcctx[1][1].rows = << <<1, "B">> >>

\* the text the version of lines 510-921 reports for a frame without one
\* (pstrdup("<unnamed query>") at the push, and again at the row)
UnnamedQuery == "<unnamed query>"

\* C31: a frame whose source text is empty or absent is still reported by
\* the exporter, with the fixed placeholder as its text: the rows of
\* pg_query_stack(0) hold, for every active frame, a row with that frame's
\* own frame_number and its text, or the placeholder when it has none, and
\* no row has an empty or absent text.
C31_TextlessFrameReported ==
    (last.op = "pg_query_stack" /\ ~last.arg[1].isnull
                                /\ last.arg[1].value = 0) =>
        \A c \in Ctxs :
            c.skip_count = 0 =>
                /\ \A i \in 1..Len(active) :
                      <<i - 1,
                        IF active[i].sourceText = NULL
                        THEN UnnamedQuery
                        ELSE active[i].sourceText>> \in RowSet([rows |-> Drain(c)])
                /\ \A row \in RowSet([rows |-> Drain(c)]) :
                      row[2] \notin {NULL, ""}

(***************************************************************************)
(* The same backend short of memory: an allocation made by                 *)
(* pg_query_stack_ExecutorStart while it records the frame raises          *)
(* (ereport(ERROR) "out of memory" in palloc, in pstrdup or in lcons),     *)
(* which leaves the hook at that statement: nothing after it runs, the     *)
(* delegate included, and the host unwinds the error.                      *)
(***************************************************************************)
OutOfMemory == "out of memory"

\* the allocations of the push, in the order of the code
AllocationSteps == {"palloc", "pstrdup", "lcons"}

\* query_stack when the allocation at step has raised: query_stack is
\* assigned only by query_stack = lcons(entry, query_stack), once lcons has
\* returned
PushFrame_failed_EntryFirst(stack, sourceText, step) ==
    IF step = "palloc"
    THEN stack
    ELSE lcons([query |-> IF step = "pstrdup" THEN NULL ELSE sourceText],
               stack)

PushFrame_failed(stack, sourceText, step) == stack

\* the memory then: the chunks allocated before the failing step stay
\* allocated in pg_query_stack_context, referenced by no element
PushCell_failed(cs, context, step) ==
    LET entry    == palloc(context)
        context1 == Allocated(context, entry)
        query    == palloc(context1)
        context2 == Allocated(context1, query)
    IN  [cells   |-> cs,
         context |-> IF step = "palloc" THEN context
                     ELSE IF step = "pstrdup" THEN context1
                     ELSE context2]

pg_query_stack_ExecutorStart_failed(sourceText, step) ==
    /\ mode = "run"
    /\ Len(active) < MaxNest
    /\ sourceText # NULL
    /\ query_stack' = PushFrame_failed(query_stack, sourceText, step)
    /\ cells' = PushCell_failed(cells, pg_query_stack_context, step).cells
    /\ pg_query_stack_context' =
           PushCell_failed(cells, pg_query_stack_context, step).context
    /\ mode' = "error"
    /\ failedFrame' = TRUE
    /\ d0s' = <<>>
    /\ funcctx' = RetireAll(Len(active))
    /\ prev' = <<>>
    /\ last' = [Op("ExecutorStart", query_stack, -1, NIL)
                    EXCEPT !.text = sourceText,
                           !.raised = <<OutOfMemory>>,
                           !.thrown = <<OutOfMemory>>,
                           !.saved = cells,
                           !.arg = <<step>>]
    /\ UNCHANGED <<active, subxacts, caught>>
    /\ UNCHANGED <<enabled, hooks>>
    /\ UNCHANGED <<Query_Stack, QueryStackContext>>

NextAlloc ==
    \/ \E sourceText \in SourceTexts(Len(active) + 1), ok \in BOOLEAN :
          \E cleanup \in (IF ok THEN {"ok"} ELSE CleanupOutcomes) :
              pg_query_stack_ExecutorStart(sourceText, ok, cleanup)
    \/ \E sourceText \in SourceTexts(Len(active) + 1),
            step \in AllocationSteps :
              pg_query_stack_ExecutorStart_failed(sourceText, step)
    \/ \E ok \in BOOLEAN : pg_query_stack_ExecutorFinish(ok)
    \/ Raise
    \/ AbandonFrame
    \/ \E event \in XactEvents : pg_query_stack_xact_callback(event)
    \/ \E event \in SubXactEvents : pg_query_stack_subxact_callback(event)

SpecAlloc == Init /\ [][NextAlloc]_vars

\* C32: when an allocation fails while pg_query_stack_ExecutorStart records
\* a frame (the entry, the copy of the text, or the list cell), the push is
\* skipped: the stack is the stack before the begin notification, no
\* element refers to a chunk of the unfinished entry and no entry lacks its
\* text, and what leaves the hook is the allocation failure itself.
C32_AllocationFailureSkipsPush ==
    (last.op = "ExecutorStart" /\ last.raised = <<OutOfMemory>>) =>
        /\ query_stack = last.pre
        /\ cells = last.saved
        /\ Len(cells) = Len(query_stack)
        /\ \A i \in 1..Len(query_stack) : query_stack[i].query # NULL
        /\ CellChunks \subseteq pg_query_stack_context.chunks
        /\ Cardinality(CellChunks) = 2 * Len(cells)
        /\ last.thrown = <<OutOfMemory>>
        /\ last.calls = <<>>
        /\ mode = "error"

\* B, nested in A, begins and the copy of its text cannot be allocated:
\* the stack is still [A], the chunk of B's entry is allocated and
\* unreferenced
C32_Witness ==
    /\ last.op = "ExecutorStart"
    /\ last.raised = <<OutOfMemory>>
    /\ last.arg = <<"pstrdup">>
    /\ last.text = "B"
    /\ last.pre = <<[query |-> "A"]>>
    /\ query_stack = <<[query |-> "A"]>>
    /\ Cardinality(pg_query_stack_context.chunks) = 3

\* C34: a frame-end notification removes only the entry the begin
\* notification of the same frame pushed: the end of a frame whose begin
\* recorded nothing (its source text was absent) removes nothing, and the
\* entries of the enclosing frames are on the stack after it as before.
C34_EndRemovesOwnEntryOnly ==
    (last.op = "ExecutorFinish" /\ last.text = NULL) =>
        /\ query_stack = last.pre
        /\ Len(cells) = Len(last.pre)

(***************************************************************************)
(* The same backend running statements whose frame the host shuts down     *)
(* without finishing it: ExecutorStart, then ExecutorEnd with no           *)
(* ExecutorFinish in between (EXPLAIN without ANALYZE).  _PG_init installs *)
(* an ExecutorStart and an ExecutorFinish hook only, so the tracker is     *)
(* called at the begin of such a frame and not at its end.  No savepoint   *)
(* is opened in these transactions.                                        *)
(***************************************************************************)
ExecutorEnd_unfinished ==
    /\ mode = "run"
    /\ active # <<>>
    /\ CatchBase < Len(active)
    \* only while the stack holds no more entries than frames are active
    /\ Len(query_stack) <= Len(active)
    /\ active' = Front(active)
    /\ cells' = IF active[Len(active)].sourceText # NULL
                THEN Abandoned(cells, Len(active))
                ELSE cells
    /\ funcctx' = RetireAll(Len(active) - 1)
    /\ caught' = (caught /\ Len(active) > 1)
    /\ d0s' = <<>>
    /\ prev' = <<>>
    /\ last' = [Op("ExecutorEnd", query_stack, -1, NIL)
                    EXCEPT !.text = active[Len(active)].sourceText]
    /\ UNCHANGED <<query_stack, subxacts, mode, failedFrame>>
    /\ UNCHANGED <<enabled, hooks, pg_query_stack_context>>
    /\ UNCHANGED <<Query_Stack, QueryStackContext>>

NextUnfinished ==
    \/ \E sourceText \in SourceTexts(Len(active) + 1), ok \in BOOLEAN :
          \E cleanup \in (IF ok THEN {"ok"} ELSE CleanupOutcomes) :
              pg_query_stack_ExecutorStart(sourceText, ok, cleanup)
    \/ \E ok \in BOOLEAN : pg_query_stack_ExecutorFinish(ok)
    \/ ExecutorEnd_unfinished
    \/ Raise
    \/ AbandonFrame
    \/ \E event \in XactEvents : pg_query_stack_xact_callback(event)
    \/ \E arg \in LoadArgs : pg_query_stack(1, arg) /\ UNCHANGED prev

SpecUnfinished == Init /\ [][NextUnfinished]_vars

\* C35: the stack holds no stale entry at a point where an exporter can
\* run: whenever the backend executes (no error is unwinding), every entry
\* is the entry of a frame that is still active, and when no frame is
\* active the stack is empty.
C35_NoStaleEntry ==
    mode = "run" =>
        /\ Len(cells) = Len(query_stack)
        /\ \A i \in 1..Len(cells) :
              /\ ~cells[i].abandoned
              /\ cells[i].frame <= Len(active)
              /\ active[cells[i].frame].sourceText = query_stack[i].query
        /\ \A i, j \in 1..Len(cells) :
              i < j => cells[i].frame > cells[j].frame
        /\ active = <<>> => query_stack = NIL

\* C36: the end observers (prev_ExecutorFinish, or standard_ExecutorFinish)
\* are called only for frames whose delegated begin call returned: when
\* the delegated begin call raises, the begin hook makes its compensating
\* pop and calls no end observer for that frame.
C36_NoEndObserverAfterFailedBegin ==
    (last.op = "ExecutorStart" /\ last.raised = <<StartError>>) =>
        CallsTo(EndObservers, last.calls) = 0

\* C37: uninstalling the tracker does not remove the observers registered
\* after it: when another library installed its hooks after the tracker's
\* _PG_init, its hooks are still the heads of the ExecutorStart and
\* ExecutorFinish chains after the tracker's _PG_fini (they head the
\* chains, so that is the only way they are reachable).
C37_LaterObserverKept ==
    (last.op = "_PG_fini" /\ hooks.since) =>
        /\ hooks.ExecutorStart_hook = "other_ExecutorStart"
        /\ hooks.ExecutorFinish_hook = "other_ExecutorFinish"

(***************************************************************************)
(* The version of lines 510-921: the stack is popped by an ExecutorEnd     *)
(* hook, there is no transaction callback, and the entries are allocated   *)
(* in QueryStackContext, which _PG_init creates as a child of              *)
(* TopTransactionContext.  The host deletes TopTransactionContext, and     *)
(* its children with it, at the end of every transaction, and the variable *)
(* TopTransactionContext is NULL while no transaction is in progress.      *)
(* An entry of Query_Stack is [query_text, entry, text]: the text          *)
(* recorded and the addresses of the QueryStackEntry and of the copy.      *)
(***************************************************************************)
\* the values of TopTransactionContext when the library is loaded: by a
\* statement inside a transaction, or before the first transaction of the
\* backend
LoadParents == {"TopTransactionContext", "NULL"}

\* what a build does with an allocation in a deleted context
DanglingOutcomes == {"continues", "crash"}

\* AllocSetContextCreate(TopTransactionContext, "QueryStackContext", ...)
AllocSetContextCreate_In(parent) ==
    [state |-> "live", chunks |-> {}, fault |-> "none", parent |-> parent]

\* the host at the end of a transaction: MemoryContextDelete of
\* TopTransactionContext deletes the contexts created under it
DeleteChildren(context) ==
    IF context.state = "live" /\ context.parent = "TopTransactionContext"
    THEN MemoryContextDelete(context)
    ELSE context

\* the push of pg_query_stack_ExecutorStart: palloc of the entry, pstrdup
\* of the text or of the placeholder, lcons
PushEntry(stack, context, sourceText) ==
    LET entry    == palloc(context)
        context1 == Allocated(context, entry)
        text     == palloc([context1 EXCEPT !.chunks = @ \cup {entry}])
        context2 == Allocated(context1, text)
    IN  [stack   |-> lcons([query_text |-> IF sourceText # NULL
                                          THEN sourceText
                                          ELSE UnnamedQuery,
                            entry |-> entry, text |-> text], stack),
         context |-> context2]

\* pg_stack_free on the memory: pfree(entry->query_text), pfree(entry)
FreeEntry(stack, context) ==
    IF stack # NIL
    THEN pfree(pfree(ReadChunk(context, stack[1].entry), stack[1].text),
               stack[1].entry)
    ELSE context

InitEnd ==
    /\ Query_Stack = NIL
    /\ QueryStackContext = NoContext
    /\ cells = NIL
    /\ pg_query_stack_context = NoContext
    /\ hooks = Unhooked
    /\ query_stack = NIL
    /\ active = <<>>
    /\ subxacts = <<>>
    /\ mode = "run"
    /\ failedFrame = FALSE
    /\ caught = FALSE
    /\ d0s = <<>>
    /\ funcctx = [site \in Sites |-> <<>>]
    /\ prev = <<>>
    /\ enabled = TRUE
    /\ last = Op("backend start", NIL, -1, NIL)

\* _PG_init of that version, between two statements
_PG_init_EndVariant(parent) ==
    /\ QueryStackContext.state = "NULL"
    /\ mode = "run"
    /\ active = <<>>
    /\ QueryStackContext' = AllocSetContextCreate_In(parent)
    /\ last' = [Op("_PG_init", Query_Stack, -1, NIL) EXCEPT !.arg = <<parent>>]
    /\ UNCHANGED <<Query_Stack, query_stack, cells, pg_query_stack_context,
                   hooks, active, subxacts, mode, failedFrame, caught, d0s,
                   funcctx, prev, enabled>>

\* pg_query_stack_ExecutorStart of that version: push, then delegate in
\* PG_TRY; PG_CATCH does pg_stack_free and PG_RE_THROW
pg_query_stack_ExecutorStart_EndVariant(sourceText, ok, dangling) ==
    /\ QueryStackContext.state # "NULL"
    /\ mode = "run"
    /\ Len(active) < MaxNest
    /\ (QueryStackContext.state = "live") => (dangling = "continues")
    /\ LET pushed == PushEntry(Query_Stack, QueryStackContext, sourceText)
           op     == [Op("ExecutorStart", Query_Stack, -1, NIL)
                         EXCEPT !.text = sourceText,
                                !.arg = <<QueryStackContext.state>>]
       IN  IF dangling = "crash"
           THEN /\ Query_Stack' = NIL
                /\ QueryStackContext' =
                       [pushed.context EXCEPT !.chunks = {}]
                /\ active' = <<>>
                /\ mode' = "crashed"
                /\ failedFrame' = FALSE
                /\ last' = [op EXCEPT !.thrown = <<Crash>>]
           ELSE IF ok
           THEN /\ Query_Stack' = pushed.stack
                /\ QueryStackContext' = pushed.context
                /\ active' = Append(active, [sourceText |-> sourceText])
                /\ last' = op
                /\ UNCHANGED <<mode, failedFrame>>
           ELSE /\ Query_Stack' = pg_stack_free(pushed.stack)
                /\ QueryStackContext' =
                       FreeEntry(pushed.stack, pushed.context)
                /\ mode' = "error"
                /\ failedFrame' = TRUE
                /\ last' = [op EXCEPT !.raised = <<StartError>>,
                                      !.thrown = <<StartError>>]
                /\ UNCHANGED active
    /\ UNCHANGED <<query_stack, cells, pg_query_stack_context, hooks,
                   subxacts, caught, d0s, funcctx, prev, enabled>>

\* pg_query_stack_ExecutorEnd of that version
pg_query_stack_ExecutorEnd_EndVariant(ok) ==
    /\ QueryStackContext.state # "NULL"
    /\ mode = "run"
    /\ active # <<>>
    /\ Query_Stack' = pg_query_stack_ExecutorEnd(Query_Stack, ok)
    /\ QueryStackContext' = FreeEntry(Query_Stack, QueryStackContext)
    /\ active' = Front(active)
    /\ IF ok
       THEN UNCHANGED <<mode, failedFrame>>
       ELSE mode' = "error" /\ failedFrame' = TRUE
    /\ last' = [Op("ExecutorEnd", Query_Stack, -1, NIL)
                    EXCEPT !.raised = IF ok THEN <<>> ELSE <<FinishError>>,
                           !.thrown = IF ok THEN <<>> ELSE <<FinishError>>,
                           !.text = active[Len(active)].sourceText]
    /\ UNCHANGED <<query_stack, cells, pg_query_stack_context, hooks,
                   subxacts, caught, d0s, funcctx, prev, enabled>>

\* the host ends the transaction between two top-level statements, or
\* aborts it when an error has reached the top level; neither that version
\* nor the one of lines 922-1245 registers a callback
TransactionEnd_NoCallback(event) ==
    /\ active = <<>>
    /\ IF event = "XACT_EVENT_ABORT" THEN mode = "error" ELSE mode = "run"
    /\ QueryStackContext' = DeleteChildren(QueryStackContext)
    /\ mode' = "run"
    /\ failedFrame' = FALSE
    /\ last' = Op(event, Query_Stack, -1, NIL)
    /\ UNCHANGED <<Query_Stack, query_stack, cells, pg_query_stack_context,
                   hooks, active, subxacts, caught, d0s, funcctx, prev,
                   enabled>>

\* no entry of an abandoned frame is on the stack of that version; errors
\* are raised only then, which bounds the stack (nothing ever resets it)
NoStaleEntry_EndVariant == Len(Query_Stack) <= Len(active)

NextEnd ==
    \/ \E parent \in LoadParents : _PG_init_EndVariant(parent)
    \/ \E sourceText \in SourceTexts(Len(active) + 1), ok \in BOOLEAN,
            dangling \in DanglingOutcomes :
          /\ ok \/ NoStaleEntry_EndVariant
          /\ pg_query_stack_ExecutorStart_EndVariant(sourceText, ok, dangling)
    \/ \E ok \in BOOLEAN :
          /\ ok \/ NoStaleEntry_EndVariant
          /\ pg_query_stack_ExecutorEnd_EndVariant(ok)
    \/ /\ QueryStackContext.state # "NULL"
       /\ NoStaleEntry_EndVariant
       /\ Raise
    \/ QueryStackContext.state # "NULL" /\ AbandonFrame
    \/ \E event \in {"XACT_EVENT_COMMIT", "XACT_EVENT_ABORT"} :
          TransactionEnd_NoCallback(event)

SpecEnd == InitEnd /\ [][NextEnd]_vars

\* C38: in the version of lines 510-921 the memory context
\* QueryStackContext, in which pg_query_stack_ExecutorStart allocates the
\* entries, is alive at every push: it is not destroyed between _PG_init
\* and a later frame begin, also after the transaction in which _PG_init
\* ran has ended.
C38_ContextAliveAtPush ==
    /\ QueryStackContext.state \in {"NULL", "live"}
    /\ last.op = "ExecutorStart" =>
          /\ last.arg = <<"live">>
          /\ QueryStackContext.fault = "none"

(***************************************************************************)
(* The version of lines 922-1245: Query_Stack holds the QueryDesc pointers *)
(* themselves, pushed by ExecutorStart and popped by ExecutorFinish; there *)
(* is no callback and no copy of the text.  The host destroys the          *)
(* QueryDesc of a frame when the frame ends or is unwound by an error.  A  *)
(* QueryDesc pointer is modelled by a number, kept by the frame it belongs *)
(* to (active[i].queryDesc) for as long as the QueryDesc exists.           *)
(***************************************************************************)
\* the QueryDesc pointers held by the frames, the stack and the snapshots
QueryDescsInUse ==
    {active[i].queryDesc : i \in 1..Len(active)} \cup
    {Query_Stack[i] : i \in 1..Len(Query_Stack)} \cup
    UNION {{c.user_fctx[i] : i \in 1..Len(c.user_fctx)} : c \in Ctxs}

\* the QueryDesc the host creates for a new frame: memory not referenced
\* from anywhere
CreateQueryDesc ==
    CHOOSE q \in 1..(Cardinality(QueryDescsInUse) + 1) :
        /\ q \notin QueryDescsInUse
        /\ \A r \in 1..(q - 1) : r \in QueryDescsInUse

\* queryDesc->sourceText: <<text>> while the QueryDesc exists, <<>> when
\* it has been destroyed
SourceTextOf(queryDesc) ==
    LET owners == {i \in 1..Len(active) : active[i].queryDesc = queryDesc}
    IN  IF owners = {}
        THEN <<>>
        ELSE <<active[CHOOSE i \in owners : TRUE].sourceText>>

\* what a read of freed memory returns when the build goes on
FreedMemory == "<freed memory>"

\* if (skip_count < 0) skip_count = 0
ClampSkipCount(skip_count) == IF skip_count < 0 THEN 0 ELSE skip_count

\* while (depth < skip_count && stack_copy != NIL) list_delete_first
RECURSIVE DeleteFirst(_, _)
DeleteFirst(list, count) ==
    IF count <= 0 \/ list = NIL
    THEN list
    ELSE DeleteFirst(list_delete_first(list), count - 1)

\* pg_list_reverse_copy
RECURSIVE pg_list_reverse_copy(_)
pg_list_reverse_copy(list) ==
    IF list = NIL
    THEN NIL
    ELSE lappend(pg_list_reverse_copy(list_delete_first(list)), list[1])

\* SRF_IS_FIRSTCALL() branch: list_copy copies the pointers
FirstCall_ByRef(stack, skip_count, owner) ==
    LET stack_copy == DeleteFirst(stack, skip_count)
        user_fctx  == pg_list_reverse_copy(stack_copy)
    IN  [skip_count |-> skip_count,
         user_fctx  |-> user_fctx,
         max_calls  |-> Len(user_fctx),
         call_cntr  |-> 0,
         rows       |-> <<>>,
         done       |-> FALSE,
         owner      |-> owner,
         fault      |-> "none"]

\* the per-call part: queryDesc->sourceText is read through the pointer of
\* the snapshot; NULL and the empty text are replaced
PerCall_ByRef(ctx) ==
    IF ctx.call_cntr < ctx.max_calls
    THEN LET queryDesc  == ctx.user_fctx[ctx.call_cntr + 1]
             read       == SourceTextOf(queryDesc)
             query_text == IF read = <<>>
                           THEN FreedMemory
                           ELSE IF read[1] = NULL \/ read[1] = ""
                           THEN UnnamedQuery
                           ELSE read[1]
         IN  [ctx EXCEPT
                !.rows = Append(@, <<ctx.call_cntr, query_text>>),
                !.call_cntr = @ + 1,
                !.fault = IF read = <<>> /\ @ = "none"
                          THEN "read of a destroyed QueryDesc"
                          ELSE @]
    ELSE [ctx EXCEPT !.user_fctx = NIL, !.done = TRUE]

InitRef ==
    /\ Query_Stack = NIL
    /\ QueryStackContext = NoContext
    /\ cells = NIL
    /\ pg_query_stack_context = NoContext
    /\ hooks = Unhooked
    /\ query_stack = NIL
    /\ active = <<>>
    /\ subxacts = <<>>
    /\ mode = "run"
    /\ failedFrame = FALSE
    /\ caught = FALSE
    /\ d0s = <<>>
    /\ funcctx = [site \in Sites |-> <<>>]
    /\ prev = <<>>
    /\ enabled = TRUE
    /\ last = Op("_PG_init", NIL, -1, NIL)

\* pg_query_stack_ExecutorStart of that version
pg_query_stack_ExecutorStart_ByRef(sourceText, ok) ==
    /\ mode = "run"
    /\ Len(active) < MaxNest
    /\ LET queryDesc == CreateQueryDesc
           pushed    == lcons(queryDesc, Query_Stack)
           op        == [Op("ExecutorStart", Query_Stack, -1, NIL)
                            EXCEPT !.text = sourceText]
       IN  IF ok
           THEN /\ Query_Stack' = pushed
                /\ active' = Append(active, [sourceText |-> sourceText,
                                             queryDesc  |-> queryDesc])
                /\ last' = op
                /\ UNCHANGED <<mode, failedFrame>>
           ELSE /\ Query_Stack' = list_delete_first(pushed)
                /\ mode' = "error"
                /\ failedFrame' = TRUE
                /\ last' = [op EXCEPT !.raised = <<StartError>>,
                                      !.thrown = <<StartError>>]
                /\ UNCHANGED active
    /\ funcctx' = RetireAll(Len(active))
    /\ UNCHANGED <<QueryStackContext, query_stack, cells,
                   pg_query_stack_context, hooks, subxacts, caught, d0s,
                   prev, enabled>>

\* pg_query_stack_ExecutorFinish of that version: one list_delete_first,
\* in PG_CATCH or after PG_END_TRY
pg_query_stack_ExecutorFinish_ByRef(ok) ==
    /\ mode = "run"
    /\ active # <<>>
    /\ Query_Stack' = IF Query_Stack # NIL
                      THEN list_delete_first(Query_Stack)
                      ELSE Query_Stack
    /\ active' = Front(active)
    /\ funcctx' = RetireAll(Len(active) - 1)
    /\ IF ok
       THEN UNCHANGED <<mode, failedFrame>>
       ELSE mode' = "error" /\ failedFrame' = TRUE
    /\ last' = [Op("ExecutorFinish", Query_Stack, -1, NIL)
                    EXCEPT !.raised = IF ok THEN <<>> ELSE <<FinishError>>,
                           !.thrown = IF ok THEN <<>> ELSE <<FinishError>>,
                           !.text = active[Len(active)].sourceText]
    /\ UNCHANGED <<QueryStackContext, query_stack, cells,
                   pg_query_stack_context, hooks, subxacts, caught, d0s,
                   prev, enabled>>

\* pg_query_stack(_skip_count) of that version, called by the innermost
\* frame; a read through a pointer to a destroyed QueryDesc goes on with
\* what the memory holds, or terminates the backend
pg_query_stack_ByRef(arg, dangling) ==
    /\ mode = "run"
    /\ active # <<>>
    /\ LET skip_count == ClampSkipCount(GetSkipCount(arg))
           ctx  == IF funcctx[1] = <<>> \/ funcctx[1][1].done
                   THEN FirstCall_ByRef(Query_Stack, skip_count, Len(active))
                   ELSE funcctx[1][1]
           next == PerCall_ByRef(ctx)
           op   == [Op("pg_query_stack", Query_Stack, -1, NIL)
                       EXCEPT !.arg = <<arg>>, !.rows = next.rows]
       IN  /\ ctx.owner = Len(active)
           /\ ctx.skip_count = skip_count
           /\ (next.fault = ctx.fault) => (dangling = "continues")
           /\ IF dangling = "crash"
              THEN /\ funcctx' = [site \in Sites |-> <<>>]
                   /\ Query_Stack' = NIL
                   /\ active' = <<>>
                   /\ mode' = "crashed"
                   /\ last' = [op EXCEPT !.thrown = <<Crash>>,
                                         !.raised =
                                             <<"read of a destroyed QueryDesc">>]
              ELSE /\ funcctx' = [funcctx EXCEPT ![1] = <<next>>]
                   /\ last' = op
                   /\ UNCHANGED <<Query_Stack, active, mode>>
    /\ UNCHANGED <<QueryStackContext, query_stack, cells,
                   pg_query_stack_context, hooks, subxacts, failedFrame,
                   caught, d0s, prev, enabled>>

\* no pointer to a destroyed QueryDesc is on the stack; errors are raised
\* only then, which bounds the stack (nothing ever resets it)
NoStaleEntry_ByRef ==
    \A i \in 1..Len(Query_Stack) : SourceTextOf(Query_Stack[i]) # <<>>

NextRef ==
    \/ \E sourceText \in SourceTexts(Len(active) + 1), ok \in BOOLEAN :
          /\ ok \/ NoStaleEntry_ByRef
          /\ pg_query_stack_ExecutorStart_ByRef(sourceText, ok)
    \/ \E ok \in BOOLEAN :
          /\ ok \/ NoStaleEntry_ByRef
          /\ pg_query_stack_ExecutorFinish_ByRef(ok)
    \/ NoStaleEntry_ByRef /\ Raise
    \/ AbandonFrame
    \/ \E event \in {"XACT_EVENT_COMMIT", "XACT_EVENT_ABORT"} :
          TransactionEnd_NoCallback(event)
    \/ \E arg \in SkipArgs, dangling \in DanglingOutcomes :
          pg_query_stack_ByRef(arg, dangling)

SpecRef == InitRef /\ [][NextRef]_vars

\* C33: in the version of lines 922-1245 a borrowed text is never read
\* after its execution record is destroyed: every entry pg_query_stack
\* dereferences while it emits a row is the QueryDesc of a frame that is
\* alive at that moment.
C33_NoReadAfterDestroy ==
    /\ \A c \in Ctxs : c.fault = "none"
    /\ last.op = "pg_query_stack" => last.raised = <<>>

====
